---- MODULE Spec2Model ----
(***************************************************************************)
(* State-machine model of the OHTC dashboard (src/app_v2.py): workbook     *)
(* ingestion (load_excel_data), the edit session of main() (tab 6) and the *)
(* workbook writer (export_updated_excel).                                 *)
(*                                                                         *)
(* Conventions.  A cell / DataFrame value is a tagged tuple:               *)
(*   <<"nan">>        NaN / None / NaT (pd.isna is true)                   *)
(*   <<"num", n>>     a number, n in thousandths  (1.0 is Num(1000))       *)
(*   <<"str", t>>     text, t a sequence of tokens (characters or words)   *)
(*   <<"date", d>>    a timestamp, d a day number                          *)
(* Source literals that are not ASCII are written as ASCII tokens; the     *)
(* comment beside each token gives the literal.                            *)
(***************************************************************************)
EXTENDS Integers, Sequences, FiniteSets, TLC

VARIABLES
    workbook,           \* the uploaded workbook (schedule sheet)
    today,              \* datetime.now().date() as a day number
    data,               \* load_excel_data's result (the ingested baseline)
    edited_project_info,\* st.session_state['edited_project_info']
    edited_all_tasks,   \* st.session_state['edited_all_tasks']
    edited_system_tasks,\* st.session_state['edited_system_tasks']
    edit_history,       \* st.session_state['edit_history']
    history_index,      \* st.session_state['history_index']
    last_edit_time,     \* st.session_state['last_edit_time'] (<<>> when absent)
    exported,           \* the workbook written by the last export (<<>> before)
    reloaded,           \* load_excel_data of the exported workbook (<<>> before)
    last,               \* observation: the handler that ran last and its input
    run,                \* observation: the current sequence of saves, then undos
    mutations           \* observation: table-changing handlers other than save run so far

vars == <<workbook, today, data, edited_project_info, edited_all_tasks,
          edited_system_tasks, edit_history, history_index, last_edit_time, exported, reloaded,
          last, run, mutations>>

session == <<edited_project_info, edited_all_tasks, edited_system_tasks, edit_history,
             history_index, last_edit_time>>

-----------------------------------------------------------------------------
(* Values *)

\* thousandths per unit of the fixed-point numbers
Scale == 1000

NaN == <<"nan">>
Num(n) == <<"num", n>>
Str(t) == <<"str", t>>
Date(d) == <<"date", d>>

\* float('inf') and float('-inf'); sign is 1 or -1
Inf(sign) == <<"inf", sign>>
IsInf(v) == v[1] = "inf"

\* how a call ends: with a value, or with an exception that leaves the function
Returned(x) == <<"return", x>>
Raised(e) == <<"raise", e>>

\* pd.isna / pd.notna
IsNa(v) == v = NaN
NotNa(v) == v # NaN
\* isinstance(v, str)
IsStr(v) == v[1] = "str"
IsNum(v) == v[1] = "num"
IsDate(v) == v[1] = "date"

\* whitespace characters removed by str.strip()
Whitespace == {" ", "\t", "\n"}

RECURSIVE LStrip(_)
LStrip(t) == IF t # <<>> /\ Head(t) \in Whitespace THEN LStrip(Tail(t)) ELSE t

RECURSIVE RStrip(_)
RStrip(t) ==
    IF t # <<>> /\ t[Len(t)] \in Whitespace THEN RStrip(SubSeq(t, 1, Len(t) - 1)) ELSE t

\* str.strip()
Strip(t) == RStrip(LStrip(t))

\* substring test "tok in t" for a one-token needle
Contains(t, tok) == \E i \in 1..Len(t) : t[i] = tok

\* str.replace(tok, '') : every occurrence removed
RemoveAll(t, tok) == SelectSeq(t, LAMBDA c : c # tok)

\* str.replace(tok, '', 1) : the first occurrence removed
RemoveFirst(t, tok) ==
    IF ~Contains(t, tok) THEN t
    ELSE LET i == CHOOSE k \in 1..Len(t) : t[k] = tok /\ \A j \in 1..(k - 1) : t[j] # tok
         IN  SubSeq(t, 1, i - 1) \o SubSeq(t, i + 1, Len(t))

DigitChars == <<"0", "1", "2", "3", "4", "5", "6", "7", "8", "9">>

\* decimal numeral of a natural number, one token per digit
RECURSIVE NumeralOf(_)
NumeralOf(n) ==
    IF n < 10 THEN <<DigitChars[n + 1]>>
    ELSE NumeralOf(n \div 10) \o <<DigitChars[(n % 10) + 1]>>

\* the three decimals of a fraction given in thousandths, trailing zeros dropped
FractionOf(f) ==
    LET d3 == <<DigitChars[(f \div 100) + 1], DigitChars[((f \div 10) % 10) + 1],
                DigitChars[(f % 10) + 1]>>
    IN  IF f % 100 = 0 THEN SubSeq(d3, 1, 1)
        ELSE IF f % 10 = 0 THEN SubSeq(d3, 1, 2) ELSE d3

\* str(x) of a number: an integral cell is an int ("2"), any other a float ("0.5")
StrOfNum(n) ==
    LET a == IF n < 0 THEN 0 - n ELSE n
        sign == IF n < 0 THEN <<"-">> ELSE <<>>
    IN  IF a % Scale = 0 THEN sign \o NumeralOf(a \div Scale)
        ELSE sign \o NumeralOf(a \div Scale) \o <<".">> \o FractionOf(a % Scale)

\* str(v) of a cell value
StrOf(v) ==
    IF IsStr(v) THEN v[2]
    ELSE IF IsNum(v) THEN StrOfNum(v[2])
    ELSE IF IsDate(v) THEN <<"timestamp">>
    ELSE <<"nan">>

-----------------------------------------------------------------------------
(* Field parsers: load_excel_data.safe_float / safe_int / safe_datetime *)

\* tokens standing for text with code points above 127
TokPct == "<baifenbi>"          \* the header phrase U+767E U+5206 U+6BD4
TokDone == "<wancheng>"         \* the header phrase U+5B8C U+6210
TokUnsupported == "<buzhiyuan>" \* the unsupported marker U+4E0D U+652F U+63F4
TokCjk == "<cjk>"               \* any other CJK character
TokWeekday == "<zhousan>"       \* a weekday annotation such as U+9031 U+4E09
DateHeaderLabels == {"<jihua kaishi riqi>", "<jihua wancheng riqi>",
                     "<shiji kaishi riqi>", "<shiji wancheng riqi>"}
MarkerMainWords == {"<zhu xiangmu>", "<da xiang>", "<da xiangmu>"}
MarkerSubWords == {"<ci xiangmu>", "<zi xiang>", "<zi xiangmu>"}
MarkerSubSubWords == {"<ci ci xiangmu>", "<sun xiang>", "<sun xiangmu>"}
NonAsciiTokens ==
    {TokPct, TokDone, TokUnsupported, TokCjk, TokWeekday} \cup DateHeaderLabels
        \cup MarkerMainWords \cup MarkerSubWords \cup MarkerSubSubWords

\* any(ord(c) > 127 for c in t)
HasNonAscii(t) == \E i \in 1..Len(t) : t[i] \in NonAsciiTokens

DigitSet == {DigitChars[i] : i \in 1..10}
DigitValue(c) == (CHOOSE i \in 1..10 : DigitChars[i] = c) - 1

\* str.isdigit()
IsDigitText(t) == t # <<>> /\ \A i \in 1..Len(t) : t[i] \in DigitSet

RECURSIVE NatOfDigits(_)
NatOfDigits(t) ==
    IF t = <<>> THEN 0 ELSE NatOfDigits(SubSeq(t, 1, Len(t) - 1)) * 10 + DigitValue(t[Len(t)])

\* thousandths denoted by the digits after the decimal point (three are kept)
FracOfDigits(t) ==
    LET d(i) == IF i <= Len(t) THEN DigitValue(t[i]) ELSE 0
    IN  d(1) * 100 + d(2) * 10 + d(3)

\* float(text): <<"ok", n>> or <<"err">> (ValueError)
FloatOfText(t) ==
    LET c == Strip(t)
        signed == c # <<>> /\ c[1] \in {"-", "+"}
        body == IF signed THEN Tail(c) ELSE c
        dot == IF Contains(body, ".")
               THEN CHOOSE k \in 1..Len(body) : body[k] = "." /\ \A j \in 1..(k - 1) : body[j] # "."
               ELSE Len(body) + 1
        ip == SubSeq(body, 1, dot - 1)
        fp == SubSeq(body, dot + 1, Len(body))
        wellFormed == /\ \A i \in 1..Len(ip) : ip[i] \in DigitSet
                      /\ \A i \in 1..Len(fp) : fp[i] \in DigitSet
                      /\ Len(ip) + Len(fp) > 0
        mag == NatOfDigits(ip) * Scale + FracOfDigits(fp)
    IN  IF wellFormed THEN <<"ok", IF signed /\ c[1] = "-" THEN 0 - mag ELSE mag>>
        ELSE <<"err">>

\* safe_float(val, default): the parsed number in thousandths, or default
safe_float(val, default) ==
    IF IsNa(val) THEN default
    ELSE IF IsStr(val) THEN
        LET val_clean == Strip(val[2])
        IN  IF HasNonAscii(val_clean)
               \/ ~IsDigitText(RemoveFirst(RemoveFirst(RemoveFirst(val_clean, "."), "-"), "+"))
            THEN default
            ELSE IF FloatOfText(val[2])[1] = "ok" THEN FloatOfText(val[2])[2] ELSE default
    ELSE IF IsNum(val) THEN val[2]
    ELSE IF IsInf(val) THEN val    \* float(inf) is inf
    ELSE default    \* float(Timestamp) raises TypeError

\* int(x): truncation toward zero of a number in thousandths
TruncToInt(n) == IF n >= 0 THEN (n \div Scale) * Scale ELSE 0 - (((0 - n) \div Scale) * Scale)

\* safe_int(val, default)
safe_int(val, default) ==
    IF IsNa(val) THEN default
    ELSE IF IsStr(val) THEN
        LET val_clean == Strip(val[2])
        IN  IF HasNonAscii(val_clean)
               \/ ~IsDigitText(RemoveFirst(RemoveFirst(val_clean, "-"), "+"))
            THEN default
            ELSE IF FloatOfText(val[2])[1] = "ok" THEN TruncToInt(FloatOfText(val[2])[2])
                 ELSE default
    ELSE IF IsNum(val) THEN TruncToInt(val[2])
    ELSE IF IsInf(val) THEN Raised("OverflowError")    \* int(inf), not among the caught
    ELSE default

\* a call of safe_float: every path of the function ends in a return
call_safe_float(val, default) == Returned(safe_float(val, default))

\* a call of safe_int: the OverflowError of int(inf) passes the except clause
call_safe_int(val, default) ==
    IF IsInf(val) THEN safe_int(val, default) ELSE Returned(safe_int(val, default))

\* re.sub(r'\([^)]*\)', '', t): every parenthesised annotation removed
RECURSIVE RemoveParens(_)
RemoveParens(t) ==
    IF ~Contains(t, "(") THEN t
    ELSE LET o == CHOOSE k \in 1..Len(t) : t[k] = "(" /\ \A j \in 1..(k - 1) : t[j] # "("
             closes == {k \in (o + 1)..Len(t) : t[k] = ")"}
         IN  IF closes = {} THEN t
             ELSE LET c == CHOOSE k \in closes : \A j \in closes : k <= j
                  IN  SubSeq(t, 1, o - 1) \o RemoveParens(SubSeq(t, c + 1, Len(t)))

\* date literals pd.to_datetime understands: the token "d<k>" is day k
DateTokens == <<"d1", "d2", "d3", "d4", "d5", "d6", "d7", "d8", "d9">>
IsDateText(t) == Len(t) = 1 /\ \E k \in 1..Len(DateTokens) : DateTokens[k] = t[1]
DayOfText(t) == CHOOSE k \in 1..Len(DateTokens) : DateTokens[k] = t[1]

\* safe_datetime(val): Date(d) or NaN (None)
safe_datetime(val) ==
    IF IsNa(val) THEN NaN
    ELSE IF IsStr(val) THEN
        LET val_clean == Strip(RemoveParens(Strip(val[2])))
        IN  IF val_clean = <<>> \/ (Len(val_clean) = 1 /\ val_clean[1] \in DateHeaderLabels)
            THEN NaN
            ELSE IF IsDateText(val_clean) THEN Date(DayOfText(val_clean)) ELSE NaN
    ELSE IF IsDate(val) THEN val
    ELSE Date(0)    \* pd.to_datetime(number): nanoseconds after the epoch

-----------------------------------------------------------------------------
(* The schedule sheet.  A sheet cell is [v |-> the value pandas reads (for a
   formula cell its cached result), f |-> "none" | "internal" | "external"],
   f telling whether openpyxl sees formula text in it ("=..." without, or with,
   a bracketed workbook reference).  A sheet row is [cells |-> 20 cells (columns
   A..T, 1-based as in openpyxl), fill |-> <<r, g, b>> of column A or <<>>].
   workbook.rows[k] is DataFrame row 5 + k, i.e. sheet row 6 + k.           *)

FirstTaskIndex == 6     \* range(6, len(df_software))
NumCols == 20

Cell(v) == [v |-> v, f |-> "none"]
Formula(v) == [v |-> v, f |-> "internal"]
ExternalFormula(v) == [v |-> v, f |-> "external"]

\* a formula of the workbook itself whose text holds square brackets, such as a
\* structured table reference =SUM(Table1[Days])
StructuredFormula(v) == [v |-> v, f |-> "structured"]

\* the formulas whose text contains '[' and ']'
Bracketed == {"external", "structured"}
Blank == Cell(NaN)

\* row[c] of the DataFrame row (0-based column c)
Col(row, c) == row.cells[c + 1].v

\* DataFrame index of workbook.rows[k]
DfIndex(k) == k + FirstTaskIndex - 1

-----------------------------------------------------------------------------
(* Hierarchy classifier: load_excel_data, the level and is_parent of a row *)

\* int(text): <<"ok", n>> or <<"err">>
IntOfText(t) ==
    LET c == Strip(t)
        signed == c # <<>> /\ c[1] \in {"-", "+"}
        body == IF signed THEN Tail(c) ELSE c
    IN  IF IsDigitText(body)
        THEN <<"ok", IF signed /\ c[1] = "-" THEN 0 - NatOfDigits(body) ELSE NatOfDigits(body)>>
        ELSE <<"err">>

MainMarkers == {<<w>> : w \in MarkerMainWords \cup {"1", "parent", "Parent"}}
SubMarkers == {<<w>> : w \in MarkerSubWords \cup {"2", "child", "Child"}}
SubSubMarkers == {<<w>> : w \in MarkerSubSubWords \cup {"3"}}

\* level_marker = str(row[1]).strip() if pd.notna(row[1]) else ''
LevelMarker(row) == IF NotNa(Col(row, 1)) THEN Strip(StrOf(Col(row, 1))) ELSE <<>>

\* the marker classification taking the integer itself as the level
LevelOfMarker_NoOffset(level_marker) ==
    IF level_marker \in MainMarkers THEN <<0, TRUE>>
    ELSE IF level_marker \in SubMarkers THEN <<1, FALSE>>
    ELSE IF level_marker \in SubSubMarkers THEN <<2, FALSE>>
    ELSE LET level_num == IntOfText(level_marker)
         IN  IF level_num[1] = "ok" /\ level_num[2] > 0
             THEN <<level_num[2], level_num[2] = 1>>
             ELSE <<0, FALSE>>

\* <<level, is_parent_by_marker>> of a marker text
LevelOfMarker(level_marker) ==
    IF level_marker \in MainMarkers THEN <<0, TRUE>>
    ELSE IF level_marker \in SubMarkers THEN <<1, FALSE>>
    ELSE IF level_marker \in SubSubMarkers THEN <<2, FALSE>>
    ELSE LET level_num == IntOfText(level_marker)
         IN  IF level_num[1] = "ok" /\ level_num[2] > 0
             THEN <<level_num[2] - 1, level_num[2] = 1>>
             ELSE <<0, FALSE>>

GreenFloor == 150

\* is_parent_by_color of the fill <<r, g, b>> of column A (<<>>: no readable colour)
IsParentByColor(fill) ==
    fill # <<>> /\ fill[2] > fill[1] /\ fill[2] > fill[3] /\ fill[2] > GreenFloor

\* owner = str(row[2]) if pd.notna(row[2]) else ''
OwnerOf(row) == IF NotNa(Col(row, 2)) THEN StrOf(Col(row, 2)) ELSE <<>>

\* has_dates and is_parent_by_logic
HasDates(row) == NotNa(Col(row, 8)) /\ NotNa(Col(row, 9))
IsParentByLogic(row) == Strip(OwnerOf(row)) = <<>> /\ ~HasDates(row)

\* has_leading_space
HasLeadingSpace(row) ==
    LET n == StrOf(Col(row, 0)) IN n # <<>> /\ n[1] \in {" ", "\t"}

\* is_parent: marker > colour > indentation > owner/date heuristic
IsParent(row) ==
    IF LevelOfMarker(LevelMarker(row))[2] THEN TRUE
    ELSE IF IsParentByColor(row.fill) THEN TRUE
    ELSE IF HasLeadingSpace(row) THEN FALSE
    ELSE IsParentByLogic(row)

-----------------------------------------------------------------------------
(* Schedule ingestor: load_excel_data, the task table *)

TextOrEmpty(v) == IF NotNa(v) THEN Str(StrOf(v)) ELSE Str(<<>>)

\* the row has a non-blank name cell
HasName(row) == NotNa(Col(row, 0)) /\ Strip(StrOf(Col(row, 0))) # <<>>

\* the secondary, content-based header skip
IsHeaderRow(row) ==
    IsStr(Col(row, 4)) /\ (Contains(Col(row, 4)[2], TokPct) \/ Contains(Col(row, 4)[2], TokDone))

\* the notes cell contains the unsupported marker
IsUnsupportedRow(row) ==
    LET notes == IF NotNa(Col(row, 19)) THEN Strip(StrOf(Col(row, 19))) ELSE <<>>
    IN  Contains(notes, TokUnsupported)

\* the task dict built for DataFrame row i, the n-th task materialized
TaskOfRow(row, i, n) ==
    [id |-> n,
     row_index |-> i,
     task |-> Str(Strip(StrOf(Col(row, 0)))),
     is_parent |-> IsParent(row),
     level |-> LevelOfMarker(LevelMarker(row))[1],
     owner |-> Str(OwnerOf(row)),
     progress_pct |-> Num(safe_float(Col(row, 4), 0)),
     target_pct |-> Num(safe_float(Col(row, 5), 0)),
     remaining_days |-> Num(safe_int(Col(row, 6), 0)),
     status |-> TextOrEmpty(Col(row, 7)),
     plan_start |-> safe_datetime(Col(row, 8)),
     plan_end |-> safe_datetime(Col(row, 9)),
     plan_days |-> Num(safe_int(Col(row, 10), 0)),
     actual_start |-> safe_datetime(Col(row, 11)),
     actual_end |-> safe_datetime(Col(row, 12)),
     actual_days |-> Num(safe_int(Col(row, 13), 0)),
     variance_days |-> Num(safe_int(Col(row, 14), 0)),
     coord_time |-> TextOrEmpty(Col(row, 15)),
     coord_manpower |-> TextOrEmpty(Col(row, 16)),
     coord_area |-> TextOrEmpty(Col(row, 17)),
     coord_equipment |-> TextOrEmpty(Col(row, 18)),
     notes |-> TextOrEmpty(Col(row, 19))]

\* a row scan that materializes the unsupported rows it counts
RECURSIVE ScanRows_KeepsUnsupported(_, _)
ScanRows_KeepsUnsupported(rows, k) ==
    IF k = 0 THEN <<<<>>, 0>>
    ELSE LET acc == ScanRows_KeepsUnsupported(rows, k - 1)
             row == rows[k]
         IN  IF ~HasName(row) THEN acc
             ELSE IF IsHeaderRow(row) THEN acc
             ELSE <<Append(acc[1], TaskOfRow(row, DfIndex(k), Len(acc[1]) + 1)),
                    acc[2] + (IF IsUnsupportedRow(row) THEN 1 ELSE 0)>>

\* the row scan: <<tasks, filtered_count>> after rows[1..k]
RECURSIVE ScanRows(_, _)
ScanRows(rows, k) ==
    IF k = 0 THEN <<<<>>, 0>>
    ELSE LET acc == ScanRows(rows, k - 1)
             row == rows[k]
         IN  IF ~HasName(row) THEN acc
             ELSE IF IsHeaderRow(row) THEN acc
             ELSE IF IsUnsupportedRow(row) THEN <<acc[1], acc[2] + 1>>
             ELSE <<Append(acc[1], TaskOfRow(row, DfIndex(k), Len(acc[1]) + 1)), acc[2]>>

\* df[col].max() of a non-empty numeric column
RECURSIVE ColumnMax(_, _)
ColumnMax(tasks, col) ==
    IF Len(tasks) = 1 THEN tasks[1][col][2]
    ELSE LET m == ColumnMax(Tail(tasks), col)
         IN  IF tasks[1][col][2] > m THEN tasks[1][col][2] ELSE m

\* the 0-1 / 0-100 rescale of one percentage column
RescaleColumn(tasks, col) ==
    IF tasks = <<>> THEN tasks
    ELSE LET mx == ColumnMax(tasks, col)
         IN  IF mx <= 1 * Scale /\ mx > 0
             THEN [k \in 1..Len(tasks) |-> [tasks[k] EXCEPT ![col] = Num(tasks[k][col][2] * 100)]]
             ELSE tasks

\* status inference that counts a plan end of today as late
calc_status_LateOnTheDay(task, t) ==
    IF task.status[2] # <<>> /\ Strip(task.status[2]) # <<>> THEN task.status
    ELSE LET progress == IF NotNa(task.progress_pct) THEN task.progress_pct[2] ELSE 0
         IN  IF progress >= 100 * Scale THEN Str(<<"Done">>)
             ELSE IF NotNa(task.plan_end) /\ task.plan_end[2] <= t THEN Str(<<"Delay">>)
             ELSE Str(<<"Going">>)

\* calc_status(row) with today = t
calc_status(task, t) ==
    IF task.status[2] # <<>> /\ Strip(task.status[2]) # <<>> THEN task.status
    ELSE LET progress == IF NotNa(task.progress_pct) THEN task.progress_pct[2] ELSE 0
         IN  IF progress >= 100 * Scale THEN Str(<<"Done">>)
             ELSE IF NotNa(task.plan_end) /\ task.plan_end[2] < t THEN Str(<<"Delay">>)
             ELSE Str(<<"Going">>)

\* the system schedule sheet of a workbook: [header |-> the values of its first
\* row, rows |-> its rows from DataFrame row 5 on, each a sequence of values];
\* a workbook without the sheet reads as an empty DataFrame
NoSheet == [header |-> <<>>, rows |-> <<>>]
SystemSheet(wb) == IF "system" \in DOMAIN wb THEN wb.system ELSE NoSheet

TokArea == "<quyu>"             \* the area marker U+5340 U+57DF
TokHierarchy == "<jieceng>"     \* the header label U+968E U+5C64
TokMain == "<zhu xiangmu>"      \* the main-item marker U+4E3B U+9805 U+76EE
TokSub == "<ci xiangmu>"        \* the sub-item marker U+6B21 U+9805 U+76EE
DefaultHierarchyCol == 3

\* hierarchy_col: the first header column whose text holds the label, else 3
hierarchy_col(header) ==
    LET hits == {c \in 1..Len(header) :
                    NotNa(header[c]) /\ Contains(StrOf(header[c]), TokHierarchy)}
    IN  IF hits = {} THEN DefaultHierarchyCol
        ELSE (CHOOSE c \in hits : \A d \in hits : c <= d) - 1

\* str(v).strip() if pd.notna(v) else ''
StrippedOrEmpty(v) == IF NotNa(v) THEN Strip(StrOf(v)) ELSE <<>>

\* an item_type that reads the area marker in the hierarchy column only
ItemType_HierarchyOnly(item_name, hierarchy_value) ==
    IF Contains(hierarchy_value, TokArea) THEN "area"
    ELSE IF Contains(hierarchy_value, TokMain) THEN "main"
    ELSE "sub"

\* item_type of a named row
ItemType(item_name, hierarchy_value) ==
    IF Contains(hierarchy_value, TokArea) \/ Contains(item_name, TokArea) THEN "area"
    ELSE IF Contains(hierarchy_value, TokMain) THEN "main"
    ELSE IF Contains(hierarchy_value, TokSub) THEN "sub"
    ELSE "sub"

\* completion_pct: safe_float, then times 100 when at most 1
CompletionPct(val) ==
    LET pct == safe_float(val, 0) IN IF pct <= 1 * Scale THEN pct * 100 ELSE pct

\* the milestone scan after rows[1..k]:
\* [items, current_area, current_main]
RECURSIVE ScanSystem(_, _, _)
ScanSystem(rows, k, hcol) ==
    IF k = 0 THEN [items |-> <<>>, current_area |-> <<>>, current_main |-> <<>>]
    ELSE LET acc == ScanSystem(rows, k - 1, hcol)
             row == rows[k]
             item_name == StrippedOrEmpty(row[1])
             hierarchy_value == StrippedOrEmpty(row[hcol + 1])
             item_type == ItemType(item_name, hierarchy_value)
             area == IF item_type = "area" THEN item_name ELSE acc.current_area
             main == IF item_type = "area" THEN <<>>
                     ELSE IF item_type = "main" THEN item_name ELSE acc.current_main
         IN  IF item_name = <<>> THEN acc
             ELSE [items |-> Append(acc.items,
                      [area |-> Str(area),
                       main_item |-> Str(IF item_type = "sub" THEN main
                                         ELSE IF item_type = "area" THEN <<>>
                                         ELSE item_name),
                       item |-> Str(Strip(item_name)),
                       item_type |-> item_type,
                       hierarchy |-> Str(hierarchy_value),
                       target_date |-> safe_datetime(row[2]),
                       completion_pct |-> Num(CompletionPct(row[3])),
                       is_area |-> item_type = "area",
                       is_main |-> item_type = "main"]),
                   current_area |-> area,
                   current_main |-> main]

\* the milestone table of a workbook
SystemTasksOf(wb) ==
    ScanSystem(SystemSheet(wb).rows, Len(SystemSheet(wb).rows),
               hierarchy_col(SystemSheet(wb).header)).items

\* project_info of the sheet's fixed cells
ProjectInfoOf(wb) ==
    [project_code |-> TextOrEmpty(wb.head.project_code.v),
     project_name |-> TextOrEmpty(wb.head.project_name.v),
     project_lead |-> TextOrEmpty(wb.head.project_lead.v),
     start_date |-> wb.head.start_date.v,
     update_date |-> wb.head.update_date.v]

\* an ingestion that infers the status before the percentage columns are rescaled
load_excel_data_StatusFirst(wb, t) ==
    LET scan == ScanRows(wb.rows, Len(wb.rows))
        inferred == [k \in 1..Len(scan[1]) |->
                        [scan[1][k] EXCEPT !.status = calc_status(scan[1][k], t)]]
    IN  [project_info |-> ProjectInfoOf(wb),
         tasks |-> RescaleColumn(RescaleColumn(inferred, "progress_pct"), "target_pct"),
         filtered_count |-> scan[2],
         system_tasks |-> SystemTasksOf(wb)]

\* load_excel_data: project info, task table and the filtered-count diagnostic
load_excel_data(wb, t) ==
    LET scan == ScanRows(wb.rows, Len(wb.rows))
        scaled == RescaleColumn(RescaleColumn(scan[1], "progress_pct"), "target_pct")
    IN  [project_info |-> ProjectInfoOf(wb),
         tasks |-> [k \in 1..Len(scaled) |->
                       [scaled[k] EXCEPT !.status = calc_status(scaled[k], t)]],
         filtered_count |-> scan[2],
         system_tasks |-> SystemTasksOf(wb)]

-----------------------------------------------------------------------------
(* Edit session: main(), tab 6 *)

\* bounds of the model
MaxTasks == 3       \* rows of the task table
MaxHistory == 3     \* snapshots in edit_history before saving is no longer explored
MaxMutations == 1   \* handler runs other than undo, redo and a save in the default view

HistoryCap == 20

\* datetime.now().strftime(...): a stamp that differs from the one stored
\* (handler runs are more than a second apart); stamps are kept modulo 2
Stamp(previous) == IF previous = <<1>> THEN <<2>> ELSE <<1>>

\* tokens of the level prefixes of format_task_with_level
TokSquare == "<square> "    \* U+25A0 and a space
TokTee == "<tee> "          \* U+251C U+2500 and a space
TokEll == "<ell> "          \* U+2514 U+2500 and a space

RECURSIVE Spaces(_)
Spaces(n) == IF n = 0 THEN <<>> ELSE <<" ">> \o Spaces(n - 1)

\* format_task_with_level(row)
format_task_with_level(task) ==
    IF task.level = 0 THEN <<TokSquare>> \o task.task[2]
    ELSE IF task.level = 1 THEN Spaces(2) \o <<TokTee>> \o task.task[2]
    ELSE IF task.level = 2 THEN Spaces(4) \o <<TokEll>> \o task.task[2]
    ELSE Spaces(2 * task.level) \o <<TokEll>> \o task.task[2]

\* clean_task_name(x)
clean_task_name(x) ==
    IF IsNa(x) THEN Str(<<>>)
    ELSE Str(Strip(RemoveAll(RemoveAll(RemoveAll(x[2], TokSquare), TokTee), TokEll)))

\* a filter / search setting of the editor
DefaultStatusFilter == {<<"Done">>, <<"Going">>, <<"Delay">>}
NoFilter == [status |-> {}, owner |-> {}, parent |-> "all", search |-> <<>>]
DefaultFilter == [NoFilter EXCEPT !.status = DefaultStatusFilter]

\* str.contains(search, na=False) on a text column
TextContains(v, search) == IsStr(v) /\ \E i \in 1..Len(v[2]) : <<v[2][i]>> = search

\* whether a task passes the filter
Passes(task, flt) ==
    /\ flt.status # {} => (IsStr(task.status) /\ task.status[2] \in flt.status)
    /\ flt.owner # {} => (IsStr(task.owner) /\ task.owner[2] \in flt.owner)
    /\ flt.parent = "main" => task.is_parent
    /\ flt.parent = "sub" => ~task.is_parent
    /\ flt.search # <<>> => (TextContains(task.task, flt.search) \/ TextContains(task.notes, flt.search))

\* filtered_tasks: the positions (DataFrame index + 1) of the visible tasks, in order
filtered_tasks(tasks, flt) ==
    SelectSeq([k \in 1..Len(tasks) |-> k], LAMBDA k : Passes(tasks[k], flt))

\* the columns of the editor: the compact view, or every editable column
CompactColumns == {"id", "owner", "status", "plan_start", "plan_end", "notes"}
AllColumns == CompactColumns \cup
    {"plan_days", "actual_start", "actual_end", "progress_pct", "variance_days"}
edit_columns(show_all) == IF show_all THEN AllColumns ELSE CompactColumns

\* the editor's row for the task at position k: [pos, task_display, and the task's columns]
EditorRow(tasks, k) ==
    [pos |-> k,
     task_display |-> Str(format_task_with_level(tasks[k])),
     id |-> tasks[k].id,
     owner |-> tasks[k].owner,
     status |-> tasks[k].status,
     plan_start |-> tasks[k].plan_start,
     plan_end |-> tasks[k].plan_end,
     notes |-> tasks[k].notes,
     plan_days |-> tasks[k].plan_days,
     actual_start |-> tasks[k].actual_start,
     actual_end |-> tasks[k].actual_end,
     progress_pct |-> tasks[k].progress_pct,
     variance_days |-> tasks[k].variance_days]

\* the frame st.data_editor shows: one row per visible task
display_tasks(tasks, flt) ==
    LET shown == filtered_tasks(tasks, flt)
    IN  [j \in 1..Len(shown) |-> EditorRow(tasks, shown[j])]

\* a row the user added in the editor: every cell empty, an index of its own (pos 0)
AddedRow ==
    [pos |-> 0, task_display |-> NaN, id |-> 0, owner |-> NaN, status |-> NaN,
     plan_start |-> NaN, plan_end |-> NaN, notes |-> NaN, plan_days |-> NaN,
     actual_start |-> NaN, actual_end |-> NaN, progress_pct |-> NaN,
     variance_days |-> NaN]

\* the cell edits explored: <<column, new value>>
CellEdits ==
    {<<"status", Str(<<"Done">>)>>, <<"status", Str(<<"Going">>)>>, <<"status", NaN>>,
     <<"owner", NaN>>, <<"task_display", Str(<<" ">>)>>,
     <<"plan_start", Date(9)>>, <<"actual_start", Date(9)>>,
     <<"progress_pct", Num(150 * Scale)>>, <<"progress_pct", Str(<<"x">>)>>}

\* columns the editor can show under a view
Shown(show_all) == edit_columns(show_all) \cup {"task_display"}

\* the frames the user can hand back for a shown frame: untouched, one cell
\* edited, one row deleted, or one empty row added
EditorResults(frame, show_all) ==
    {frame}
    \cup {[frame EXCEPT ![j][e[1]] = e[2]] :
            j \in 1..Len(frame), e \in {c \in CellEdits : c[1] \in Shown(show_all)}}
    \cup {SubSeq(frame, 1, j - 1) \o SubSeq(frame, j + 1, Len(frame)) : j \in 1..Len(frame)}
    \cup {Append(frame, AddedRow)}

\* the validation messages of one editor row (the kinds of message, as a set)
RowErrors(row, show_all) ==
    LET task == clean_task_name(row.task_display)
    IN  (IF IsNa(task) \/ Strip(StrOf(task)) = <<>> THEN {"task"} ELSE {})
        \cup (IF IsNa(row.owner) \/ Strip(StrOf(row.owner)) = <<>> THEN {"owner"} ELSE {})
        \cup (IF IsNa(row.status) \/ Strip(StrOf(row.status)) = <<>> THEN {"status"} ELSE {})
        \cup (IF NotNa(row.plan_start) /\ NotNa(row.plan_end)
                 /\ row.plan_start[2] > row.plan_end[2] THEN {"plan"} ELSE {})
        \cup (IF show_all /\ NotNa(row.actual_start) /\ NotNa(row.actual_end)
                 /\ row.actual_start[2] > row.actual_end[2] THEN {"actual"} ELSE {})
        \cup (IF show_all /\ NotNa(row.progress_pct)
              THEN IF ~IsNum(row.progress_pct) THEN {"pct_format"}
                   ELSE IF row.progress_pct[2] < 0 \/ row.progress_pct[2] > 100 * Scale
                        THEN {"pct_range"} ELSE {}
              ELSE {})

ErrorKinds == {"task", "owner", "status", "plan", "actual", "pct_format", "pct_range"}

\* validation that forgets the required-owner check
validation_errors_NoOwnerCheck(frame, show_all) ==
    {e \in (1..Len(frame)) \X (ErrorKinds \ {"owner"}) :
        e[2] \in RowErrors(frame[e[1]], show_all)}

\* validation_errors: <<row number, kind>> for every message
validation_errors(frame, show_all) ==
    {e \in (1..Len(frame)) \X ErrorKinds : e[2] \in RowErrors(frame[e[1]], show_all)}

\* df[col] = frame[col]: index-aligned assignment of the written columns; a task
\* with no editor row of its index gets NaN in each written column
WriteBack(tasks, frame, show_all) ==
    [k \in 1..Len(tasks) |->
        IF \E j \in 1..Len(frame) : frame[j].pos = k
        THEN LET r == frame[CHOOSE j \in 1..Len(frame) : frame[j].pos = k]
             IN  IF show_all
                 THEN [tasks[k] EXCEPT !.owner = r.owner, !.status = r.status,
                          !.plan_start = r.plan_start, !.plan_end = r.plan_end,
                          !.notes = r.notes, !.plan_days = r.plan_days,
                          !.actual_start = r.actual_start, !.actual_end = r.actual_end,
                          !.progress_pct = r.progress_pct,
                          !.variance_days = r.variance_days]
                 ELSE [tasks[k] EXCEPT !.owner = r.owner, !.status = r.status,
                          !.plan_start = r.plan_start, !.plan_end = r.plan_end,
                          !.notes = r.notes]
        ELSE IF show_all
             THEN [tasks[k] EXCEPT !.owner = NaN, !.status = NaN, !.plan_start = NaN,
                      !.plan_end = NaN, !.notes = NaN, !.plan_days = NaN,
                      !.actual_start = NaN, !.actual_end = NaN, !.progress_pct = NaN,
                      !.variance_days = NaN]
             ELSE [tasks[k] EXCEPT !.owner = NaN, !.status = NaN, !.plan_start = NaN,
                      !.plan_end = NaN, !.notes = NaN]]

\* a renumbering that leaves the ids as they are
Renumber_KeepsIds(tasks) == tasks

\* df['id'] = range(1, len(df) + 1)
Renumber(tasks) == [k \in 1..Len(tasks) |-> [tasks[k] EXCEPT !.id = k]]

\* the history after the pre-commit push: redo entries dropped, the current
\* table appended, the list cut to its newest HistoryCap entries
PushPreState(history, index, tasks) ==
    IF Len(history) = 0 \/ tasks # history[Len(history)]
    THEN LET h == Append(SubSeq(history, 1, index + 1), tasks)
         IN  IF Len(h) > HistoryCap
             THEN SubSeq(h, Len(h) - HistoryCap + 1, Len(h))
             ELSE h
    ELSE history

-----------------------------------------------------------------------------
(* The handlers of the edit session.  Each is one script run of main(): the
   button's branch up to st.rerun().                                        *)

frozen == <<workbook, today, data, exported, reloaded>>

\* what the handlers of the task editor leave alone
untouched == <<frozen, edited_system_tasks>>

\* Undo restoring the snapshot at the old pointer instead of the new one
Undo_StaleSnapshot ==
    /\ history_index > 0
    /\ history_index' = history_index - 1
    /\ edited_all_tasks' = edit_history[history_index + 1]
    /\ UNCHANGED <<edited_project_info, edit_history, last_edit_time>>
    /\ UNCHANGED <<workbook, today, data, exported, reloaded, edited_system_tasks>>

\* an undo button that stays enabled at the oldest snapshot
Undo_FromOldest ==
    /\ history_index >= 0
    /\ history_index' = history_index - 1
    /\ edited_all_tasks' = IF history_index' < 0
                           THEN edit_history[Len(edit_history)]     \* list[-1]
                           ELSE edit_history[history_index' + 1]
    /\ UNCHANGED <<edited_project_info, edit_history, last_edit_time>>
    /\ UNCHANGED <<workbook, today, data, exported, reloaded, edited_system_tasks>>

\* the undo button
Undo ==
    /\ history_index > 0
    /\ history_index' = history_index - 1
    /\ edited_all_tasks' = edit_history[history_index' + 1]
    /\ UNCHANGED <<edited_project_info, edit_history, last_edit_time>>
    /\ UNCHANGED untouched

\* the redo button
Redo ==
    /\ history_index < Len(edit_history) - 1
    /\ history_index' = history_index + 1
    /\ edited_all_tasks' = edit_history[history_index' + 1]
    /\ UNCHANGED <<edited_project_info, edit_history, last_edit_time>>
    /\ UNCHANGED untouched

\* the update-project-info button
UpdateProjectInfo(info) ==
    /\ edited_project_info' =
          [edited_project_info EXCEPT !.project_code = info.project_code,
              !.project_name = info.project_name, !.project_lead = info.project_lead,
              !.start_date = info.start_date]
    /\ last_edit_time' = Stamp(last_edit_time)
    /\ UNCHANGED <<edited_all_tasks, edit_history, history_index>>
    /\ UNCHANGED untouched

\* the record the add-task button appends to a table of n rows
NewTask(n, t) ==
    [id |-> n + 1, row_index |-> n + 6, task |-> Str(<<"<xin renwu>">>),
     is_parent |-> FALSE, level |-> 1, owner |-> Str(<<>>),
     progress_pct |-> Num(0), target_pct |-> Num(0), remaining_days |-> Num(0),
     status |-> Str(<<"Going">>), plan_start |-> Date(t), plan_end |-> Date(t + 7),
     plan_days |-> Num(7 * Scale), actual_start |-> NaN, actual_end |-> NaN,
     actual_days |-> Num(0), variance_days |-> Num(0), coord_time |-> Str(<<>>),
     coord_manpower |-> Str(<<>>), coord_area |-> Str(<<>>),
     coord_equipment |-> Str(<<>>), notes |-> Str(<<>>)]

\* the add-task button
AddTask ==
    /\ Len(edited_all_tasks) < MaxTasks
    /\ edited_all_tasks' = Append(edited_all_tasks, NewTask(Len(edited_all_tasks), today))
    /\ UNCHANGED <<edited_project_info, edit_history, history_index, last_edit_time>>
    /\ UNCHANGED untouched

\* the ids offered by the batch widgets: those of the visible tasks
VisibleIds(tasks, flt) ==
    {tasks[filtered_tasks(tasks, flt)[j]].id : j \in 1..Len(filtered_tasks(tasks, flt))}

\* .loc[idx[0], col] = value for the first row of each selected id
SetColumn(tasks, ids, col, value) ==
    [k \in 1..Len(tasks) |->
        IF tasks[k].id \in ids /\ \A j \in 1..(k - 1) : tasks[j].id # tasks[k].id
        THEN [tasks[k] EXCEPT ![col] = value] ELSE tasks[k]]

\* the batch status button
BatchStatus(flt, ids, batch_status) ==
    /\ ids # {} /\ ids \subseteq VisibleIds(edited_all_tasks, flt)
    /\ edited_all_tasks' = SetColumn(edited_all_tasks, ids, "status", Str(batch_status))
    /\ last_edit_time' = Stamp(last_edit_time)
    /\ UNCHANGED <<edited_project_info, edit_history, history_index>>
    /\ UNCHANGED untouched

\* the batch owner button
BatchOwner(flt, ids, batch_owner) ==
    /\ ids # {} /\ ids \subseteq VisibleIds(edited_all_tasks, flt)
    /\ edited_all_tasks' = SetColumn(edited_all_tasks, ids, "owner", Str(batch_owner))
    /\ last_edit_time' = Stamp(last_edit_time)
    /\ UNCHANGED <<edited_project_info, edit_history, history_index>>
    /\ UNCHANGED untouched

\* the batch delete button
BatchDelete(flt, ids) ==
    /\ ids # {} /\ ids \subseteq VisibleIds(edited_all_tasks, flt)
    /\ edited_all_tasks' =
          Renumber(SelectSeq(edited_all_tasks, LAMBDA task : task.id \notin ids))
    /\ last_edit_time' = Stamp(last_edit_time)
    /\ UNCHANGED <<edited_project_info, edit_history, history_index>>
    /\ UNCHANGED untouched

\* the table after copy_count copies of the task original_task
RECURSIVE Copies(_, _, _)
Copies(tasks, original_task, copy_count) ==
    IF copy_count = 0 THEN tasks
    ELSE LET sofar == Copies(tasks, original_task, copy_count - 1)
         IN  Append(sofar,
                    [original_task EXCEPT !.id = Len(sofar) + 1,
                        !.row_index = Len(sofar) + 6,
                        !.task = Str(StrOf(@) \o <<" (copy", DigitChars[copy_count + 1], ")">>)])

\* the copy-task button
CopyTask(flt, copy_task_id, copy_count) ==
    /\ copy_task_id \in VisibleIds(edited_all_tasks, flt)
    /\ Len(edited_all_tasks) + copy_count <= MaxTasks
    /\ LET k == CHOOSE j \in 1..Len(edited_all_tasks) :
                    /\ edited_all_tasks[j].id = copy_task_id
                    /\ \A i \in 1..(j - 1) : edited_all_tasks[i].id # copy_task_id
       IN  edited_all_tasks' =
              Renumber(Copies(edited_all_tasks, edited_all_tasks[k], copy_count))
    /\ last_edit_time' = Stamp(last_edit_time)
    /\ UNCHANGED <<edited_project_info, edit_history, history_index>>
    /\ UNCHANGED untouched

\* the save button: frame is the editor's content, limit the longest history explored
SaveChanges(flt, show_all, frame, limit) ==
    /\ filtered_tasks(edited_all_tasks, flt) # <<>>     \* else st.stop() before the button
    /\ frame \in EditorResults(display_tasks(edited_all_tasks, flt), show_all)
    /\ Len(edit_history) < limit
    /\ IF validation_errors(frame, show_all) # {}
       THEN UNCHANGED session
       ELSE LET pushed == PushPreState(edit_history, history_index, edited_all_tasks)
                saved == Renumber(WriteBack(edited_all_tasks, frame, show_all))
            IN  /\ edited_all_tasks' = saved
                /\ edit_history' = Append(pushed, saved)
                /\ history_index' = Len(pushed)
                /\ last_edit_time' = Stamp(last_edit_time)
                /\ UNCHANGED edited_project_info
    /\ UNCHANGED untouched

\* a reset that puts back the task table only
ResetToOriginal_TasksOnly(flt) ==
    /\ filtered_tasks(edited_all_tasks, flt) # <<>>
    /\ edited_all_tasks' = data.tasks
    /\ last_edit_time' = <<>>
    /\ UNCHANGED <<edited_project_info, edited_system_tasks, edit_history, history_index>>
    /\ UNCHANGED frozen

\* the reset-to-original button
ResetToOriginal(flt) ==
    /\ filtered_tasks(edited_all_tasks, flt) # <<>>     \* else st.stop() before the button
    /\ edited_project_info' = data.project_info
    /\ edited_all_tasks' = data.tasks
    /\ edited_system_tasks' = data.system_tasks
    /\ last_edit_time' = <<>>
    /\ UNCHANGED <<edit_history, history_index>>
    /\ UNCHANGED frozen

-----------------------------------------------------------------------------
(* Observation of a behaviour: which handler ran last and on what input, the
   current sequence of accepted saves followed by undos, and the exploration
   budget.  None of it is read by a handler.                                *)

NoRun == [saves |-> 0, undos |-> 0, base |-> <<>>]

Observed(op) == last' = [op |-> op, accepted |-> TRUE, failure |-> FALSE]

\* the commit contains a validation failure, in the terms of the edit contract:
\* an empty required field, a start after its end, a percentage outside 0-100
\* or not a number, in some row of the frame handed back
CommitFails(frame, show_all) ==
    \E j \in 1..Len(frame) :
        LET r == frame[j]
            name == clean_task_name(r.task_display)[2]
        IN  \/ name = <<>>
            \/ r.owner \in {NaN, Str(<<>>), Str(<<" ">>)}
            \/ r.status \in {NaN, Str(<<>>), Str(<<" ">>)}
            \/ IsDate(r.plan_start) /\ IsDate(r.plan_end) /\ r.plan_end[2] < r.plan_start[2]
            \/ show_all /\ IsDate(r.actual_start) /\ IsDate(r.actual_end)
                  /\ r.actual_end[2] < r.actual_start[2]
            \/ show_all /\ IsStr(r.progress_pct)
            \/ show_all /\ IsNum(r.progress_pct)
                  /\ ~(0 <= r.progress_pct[2] /\ r.progress_pct[2] <= 100 * Scale)

\* a save was pressed with this frame
ObservedSave(frame, show_all) ==
    last' = [op |-> "save", accepted |-> validation_errors(frame, show_all) = {},
             failure |-> CommitFails(frame, show_all)]

\* the run of saves and undos after an undo
TrackUndo ==
    run' = IF run.saves > 0 /\ run.undos < run.saves
           THEN [run EXCEPT !.undos = @ + 1] ELSE NoRun

\* the run of saves and undos after a save of this frame
TrackSave(frame, show_all) ==
    run' = IF validation_errors(frame, show_all) # {} THEN run
           ELSE IF run.saves > 0 /\ run.undos = 0 THEN [run EXCEPT !.saves = @ + 1]
           ELSE [saves |-> 1, undos |-> 0, base |-> edited_all_tasks]

NoTrack == run' = NoRun

\* a handler run that counts against the budget max when charged
Charge(charged, max) ==
    IF charged THEN mutations < max /\ mutations' = mutations + 1
    ELSE UNCHANGED mutations

-----------------------------------------------------------------------------
(* Workbooks the behaviours start from *)

T(tok) == Cell(Str(<<tok>>))
N(n) == Cell(Num(n))

\* a sheet row from the cells that carry data; the other columns are blank
Row(name, marker, owner, progress, status, plan_start, plan_end, actual_start,
    actual_end, notes, fill) ==
    [cells |-> [c \in 1..NumCols |->
                  CASE c = 1 -> name
                    [] c = 2 -> marker
                    [] c = 3 -> owner
                    [] c = 5 -> progress
                    [] c = 8 -> status
                    [] c = 9 -> plan_start
                    [] c = 10 -> plan_end
                    [] c = 12 -> actual_start
                    [] c = 13 -> actual_end
                    [] c = 20 -> notes
                    [] OTHER -> Blank],
     fill |-> fill]

BlankRow == Row(Blank, Blank, Blank, Blank, Blank, Blank, Blank, Blank, Blank, Blank, <<>>)

SheetHead(code_cell) ==
    [project_code |-> code_cell, project_name |-> T("OHTC"), project_lead |-> T("Lin"),
     start_date |-> Cell(Date(1)), update_date |-> Cell(Date(2))]

RowA == Row(T("A"), Blank, T("TIM SMA"), N(500), T("Going"), Cell(Date(1)), Cell(Date(5)),
            Blank, Blank, Blank, <<>>)
RowB == Row(T("B"), T("2"), T("TIM SMA"), N(1000), Blank, T("d2"), T("d6"),
            Cell(Date(5)), Cell(Date(3)), T("note"), <<>>)

\* a system schedule sheet with an area heading and one milestone under it
EditSystemSheet ==
    [header |-> <<NaN, NaN, NaN, NaN, NaN>>,
     rows |-> <<<<Str(<<TokArea, "A">>), NaN, Num(500), NaN, NaN>>,
                <<Str(<<"X">>), Date(5), Num(40 * Scale), Str(<<TokSub>>), NaN>>>>]

\* the workbooks of the edit-session behaviours and their "today"
EditWorkbooks ==
    {[head |-> SheetHead(T("P1")), rows |-> <<RowA, RowB>>],
     [head |-> SheetHead(T("P1")), rows |-> <<RowA>>, system |-> EditSystemSheet]}
EditToday == 4

Filters ==
    {DefaultFilter, NoFilter,
     [NoFilter EXCEPT !.status = {<<"Done">>}, !.parent = "sub", !.search = <<"B">>]}

NewInfo == [project_code |-> Str(<<"P2">>), project_name |-> Str(<<"OHTC2">>),
            project_lead |-> Str(<<"Wu">>), start_date |-> Date(3)]

InitSession ==
    /\ data = load_excel_data(workbook, today)
    /\ edited_project_info = data.project_info
    /\ edited_all_tasks = data.tasks
    /\ edited_system_tasks = data.system_tasks
    /\ edit_history = <<>>
    /\ history_index = 0 - 1
    /\ last_edit_time = <<>>
    /\ exported = <<>>
    /\ reloaded = <<>>
    /\ last = [op |-> "init", accepted |-> TRUE, failure |-> FALSE]
    /\ run = NoRun
    /\ mutations = 0

InitEdit ==
    /\ workbook \in EditWorkbooks
    /\ today = EditToday
    /\ InitSession

NextEdit ==
    \/ Undo /\ Observed("undo") /\ TrackUndo /\ Charge(FALSE, MaxMutations)
    \/ Redo /\ Observed("redo") /\ NoTrack /\ Charge(FALSE, MaxMutations)
    \/ /\ Charge(TRUE, MaxMutations) /\ Observed("project") /\ NoTrack
       /\ UpdateProjectInfo(NewInfo)
    \/ /\ Charge(TRUE, MaxMutations) /\ Observed("add") /\ NoTrack
       /\ AddTask
    \/ /\ Charge(TRUE, MaxMutations) /\ Observed("batch_status") /\ NoTrack
       /\ \E flt \in Filters, st \in DefaultStatusFilter :
             \E ids \in SUBSET VisibleIds(edited_all_tasks, flt) : BatchStatus(flt, ids, st)
    \/ /\ Charge(TRUE, MaxMutations) /\ Observed("batch_owner") /\ NoTrack
       /\ \E flt \in Filters :
             \E ids \in SUBSET VisibleIds(edited_all_tasks, flt) :
                 BatchOwner(flt, ids, <<"Vendor">>)
    \/ /\ Charge(TRUE, MaxMutations) /\ Observed("batch_delete") /\ NoTrack
       /\ \E flt \in Filters :
             \E ids \in SUBSET VisibleIds(edited_all_tasks, flt) : BatchDelete(flt, ids)
    \/ /\ Charge(TRUE, MaxMutations) /\ Observed("copy") /\ NoTrack
       /\ \E flt \in Filters, n \in 1..2 :
             \E id \in VisibleIds(edited_all_tasks, flt) : CopyTask(flt, id, n)
    \/ \E flt \in Filters, show_all \in BOOLEAN :
          \E frame \in EditorResults(display_tasks(edited_all_tasks, flt), show_all) :
              /\ Charge(flt # DefaultFilter \/ show_all, MaxMutations)
              /\ SaveChanges(flt, show_all, frame, MaxHistory)
              /\ ObservedSave(frame, show_all) /\ TrackSave(frame, show_all)
    \/ /\ Charge(FALSE, MaxMutations) /\ Observed("reset") /\ NoTrack
       /\ \E flt \in Filters : ResetToOriginal(flt)

SpecEdit == InitEdit /\ [][NextEdit]_vars

\* the workbook and the budget of the deep-history behaviours: one task, saves
\* in the default view, at most MaxEdits of them with an edited frame
HistoryWorkbook == [head |-> SheetHead(T("P1")), rows |-> <<RowA>>]
MaxEdits == 2
HistoryLimit == HistoryCap + 2

InitHistory ==
    /\ workbook = HistoryWorkbook
    /\ today = EditToday
    /\ InitSession

NextHistory ==
    \/ Undo /\ Observed("undo") /\ NoTrack /\ Charge(FALSE, MaxEdits)
    \/ Redo /\ Observed("redo") /\ NoTrack /\ Charge(FALSE, MaxEdits)
    \/ \E frame \in EditorResults(display_tasks(edited_all_tasks, DefaultFilter), FALSE) :
          /\ Charge(frame # display_tasks(edited_all_tasks, DefaultFilter), MaxEdits)
          /\ SaveChanges(DefaultFilter, FALSE, frame, HistoryLimit)
          /\ ObservedSave(frame, FALSE) /\ NoTrack

SpecHistory == InitHistory /\ [][NextHistory]_vars

-----------------------------------------------------------------------------
(* Claims about the edit session *)

\* C1: after N successive accepted save commits followed by N undo actions the
\* task table equals the task table as it was immediately before the first of
\* those commits, from every reachable edit-session state.
C1_UndoRestoresPreEditTable ==
    (run.saves > 0 /\ run.undos = run.saves) => edited_all_tasks = run.base

\* two saves then two undos, after another handler changed the table, and the
\* saves did change the table
C1_Witness ==
    /\ run.saves = 2 /\ run.undos = 2
    /\ mutations > 0
    /\ edited_all_tasks # edit_history[Len(edit_history)]
    /\ edited_all_tasks # data.tasks

\* C2: after one or more undo actions followed by an accepted save commit, every
\* history snapshot that lay above the history pointer just before the commit has
\* been removed (the history is its part up to the pointer, then the one or two
\* snapshots of the commit), the newly committed snapshot is the last entry and
\* redo is unavailable.
C2_RedoHistoryTruncated ==
    [][(last.op = "undo" /\ last'.op = "save" /\ last'.accepted) =>
         /\ history_index' = Len(edit_history') - 1
         /\ edit_history'[Len(edit_history')] = edited_all_tasks'
         /\ Len(edit_history') \in {history_index + 2, history_index + 3}
         /\ SubSeq(edit_history', 1, history_index + 1)
               = SubSeq(edit_history, 1, history_index + 1)]_vars

\* C3: in every reachable edit-session state the edit history holds at most 20
\* snapshots.
C3_HistoryAtMostCap == Len(edit_history) <= HistoryCap

\* C4: when a save commit contains at least one validation failure the commit is
\* rejected as a whole: the task table, the edit history, the history pointer and
\* the last-edit time are exactly as they were before the commit.
C4_RejectedCommitChangesNothing ==
    [][(last'.op = "save" /\ last'.failure) =>
         UNCHANGED <<edited_all_tasks, edit_history, history_index, last_edit_time>>]_vars

\* a commit with a validation failure was rejected in a session that has history
C4_Witness ==
    /\ last.op = "save" /\ last.failure /\ ~last.accepted
    /\ Len(edit_history) > 0
    /\ last_edit_time # <<>>

-----------------------------------------------------------------------------
(* Workbook writer: export_updated_excel and the export button *)

\* the cell openpyxl saves for cell.value = v; an empty string saves as an
\* empty cell
Written(v) == Cell(IF v = Str(<<>>) THEN NaN ELSE v)

\* cell.value = None for every text that starts with '=' and holds '[' and ']'
StripCell(cell) == IF cell.f \in Bracketed THEN Blank ELSE cell

StripExternal(wb) ==
    [wb EXCEPT
        !.head = [h \in DOMAIN wb.head |-> StripCell(wb.head[h])],
        !.rows = [k \in 1..Len(wb.rows) |->
                    [wb.rows[k] EXCEPT !.cells = [c \in 1..NumCols |-> StripCell(@[c])]]]]

\* cell.value and isinstance(cell.value, str) and cell.value.startswith('=')
HoldsFormula(cell) == cell.f # "none"

\* the task field written to each sheet column ("" where none is)
FieldOfColumn ==
    <<"task", "", "owner", "", "progress_pct", "target_pct", "remaining_days", "status",
      "plan_start", "plan_end", "plan_days", "actual_start", "actual_end", "actual_days",
      "variance_days", "coord_time", "coord_manpower", "coord_area", "coord_equipment",
      "notes">>

\* columns written only when the cell holds no formula, written only when the
\* task's value is not NaT, and written always
GuardedColumns == {1, 3, 5, 6, 7, 11, 14, 15}
DateColumns == {9, 10, 12, 13}
PlainColumns == {8, 16, 17, 18, 19, 20}

\* the sheet row after one iteration of the task loop
ExportRow(row, task, cloned, template_fill) ==
    [cells |-> [c \in 1..NumCols |->
                  IF c \in GuardedColumns
                  THEN IF HoldsFormula(row.cells[c]) THEN row.cells[c]
                       ELSE Written(task[FieldOfColumn[c]])
                  ELSE IF c \in DateColumns
                  THEN IF NotNa(task[FieldOfColumn[c]])
                       THEN Written(task[FieldOfColumn[c]]) ELSE row.cells[c]
                  ELSE IF c \in PlainColumns THEN Written(task[FieldOfColumn[c]])
                  ELSE row.cells[c]],
     fill |-> IF cloned THEN template_fill ELSE row.fill]

\* ws.cell(row, col) creates the rows it is asked for beyond the sheet's last
Padded(rows, height) ==
    [k \in 1..height |-> IF k <= Len(rows) THEN rows[k] ELSE BlankRow]

Max(a, b) == IF a >= b THEN a ELSE b

\* export_updated_excel(data, original_file, updated_tasks) at the date now;
\* the task of DataFrame index idx goes to sheet row idx + 7, that is rows[idx + 1]
export_updated_excel(export_data, original_file, updated_tasks, now) ==
    LET stripped == StripExternal(original_file)
        original_task_count == Len(export_data.tasks)
        new_task_count == Len(updated_tasks)
        template_fill == IF stripped.rows = <<>> THEN <<>> ELSE stripped.rows[1].fill
        height == Max(Len(stripped.rows), Max(new_task_count, original_task_count))
        sheet == Padded(stripped.rows, height)
        blanked == [k \in 1..height |->
                      IF new_task_count < original_task_count
                         /\ k > new_task_count /\ k <= original_task_count
                      THEN [sheet[k] EXCEPT !.cells = [c \in 1..NumCols |-> Blank]]
                      ELSE sheet[k]]
        written == [k \in 1..height |->
                      IF k <= new_task_count
                      THEN ExportRow(blanked[k], updated_tasks[k],
                                     k - 1 >= original_task_count, template_fill)
                      ELSE blanked[k]]
    IN  [stripped EXCEPT
            !.head = [stripped.head EXCEPT
                         !.project_code = Written(export_data.project_info.project_code),
                         !.project_name = Written(export_data.project_info.project_name),
                         !.project_lead = Written(export_data.project_info.project_lead),
                         !.update_date = Cell(Date(now))],
            !.rows = written]

\* the generate-Excel button: the edited table is both the data and the update
GenerateExcel ==
    /\ exported' = export_updated_excel(
                      [project_info |-> edited_project_info, tasks |-> edited_all_tasks],
                      workbook, edited_all_tasks, today)
    /\ reloaded' = <<>>
    /\ UNCHANGED <<workbook, today, data>>
    /\ UNCHANGED session

\* the exported workbook is uploaded and ingested again
Reingest ==
    /\ exported # <<>>
    /\ reloaded' = load_excel_data(exported, today)
    /\ UNCHANGED <<workbook, today, data, exported>>
    /\ UNCHANGED session

\* workbooks of the export behaviours: plain, with a blank, a header or an
\* unsupported row among the task rows, with formula cells, with an indented name
HeaderRow == Row(T("Task"), Blank, Blank, T(TokPct), Blank, Blank, Blank, Blank, Blank,
                 Blank, <<>>)
UnsupportedRow == Row(T("U"), Blank, T("TIM SMA"), N(0), T("Going"), Blank, Blank, Blank,
                      Blank, T(TokUnsupported), <<>>)
RowInternal ==
    [Row(T("F"), Blank, Formula(Str(<<"TIM SMA">>)), N(20000), Formula(Str(<<"Going">>)),
         Cell(Date(1)), Formula(Date(5)), Blank, Blank, Formula(Str(<<"note">>)), <<>>)
       EXCEPT !.cells[11] = Formula(Num(4000))]
RowExternal ==
    Row(T("X"), Blank, T("TIM SMA"), ExternalFormula(Num(30000)), T("Going"), Cell(Date(1)),
        Cell(Date(5)), Blank, Blank, ExternalFormula(Str(<<"ref">>)), <<>>)
\* rows with a formula in column D, which ingestion and the task loop pass over
RowStructured == [RowA EXCEPT !.cells[4] = StructuredFormula(Num(Scale)),
                              !.cells[2] = Formula(Str(<<"2">>))]
RowLinked == [RowB EXCEPT !.cells[4] = ExternalFormula(Num(Scale))]
RowIndented == Row(Cell(Str(<<" ", "C">>)), Blank, Blank, N(0), Blank, Blank, Blank, Blank, Blank, Blank, <<>>)

ExportWorkbooks ==
    {[head |-> SheetHead(T("P1")), rows |-> <<RowA, RowB>>],
     [head |-> SheetHead(T("P1")), rows |-> <<BlankRow, RowA, RowB>>],
     [head |-> SheetHead(T("P1")), rows |-> <<RowA, HeaderRow, RowB>>],
     [head |-> SheetHead(T("P1")), rows |-> <<RowA, UnsupportedRow, RowB>>],
     [head |-> SheetHead(Formula(Str(<<"P1">>))), rows |-> <<RowInternal, RowB>>],
     [head |-> SheetHead(ExternalFormula(Str(<<"P1">>))), rows |-> <<RowExternal, RowA>>],
     [head |-> SheetHead(T("P1")), rows |-> <<RowIndented, RowB>>],
     [head |-> SheetHead(T("P1")), rows |-> <<RowStructured, RowLinked>>]}

\* session edits made before and between exports
MaxExportEdits == 2

InitExport ==
    /\ workbook \in ExportWorkbooks
    /\ today = EditToday
    /\ InitSession

NextExport ==
    \/ /\ \E ids \in SUBSET VisibleIds(edited_all_tasks, NoFilter) : BatchDelete(NoFilter, ids)
       /\ Observed("batch_delete") /\ NoTrack /\ Charge(TRUE, MaxExportEdits)
    \/ /\ Len(edited_all_tasks) < MaxTasks /\ AddTask
       /\ Observed("add") /\ NoTrack /\ Charge(TRUE, MaxExportEdits)
    \/ /\ UpdateProjectInfo(NewInfo)
       /\ Observed("project") /\ NoTrack /\ Charge(TRUE, MaxExportEdits)
    \/ GenerateExcel /\ Observed("export") /\ NoTrack /\ Charge(FALSE, MaxExportEdits)
    \/ Reingest /\ Observed("reingest") /\ NoTrack /\ Charge(FALSE, MaxExportEdits)

SpecExport == InitExport /\ [][NextExport]_vars

-----------------------------------------------------------------------------
(* Claims about the workbook writer *)

\* the sheet row (index into rows) a task was read from
SourceRow(task) == task.row_index - FirstTaskIndex + 1

\* the task is one of the ingested ones
FromWorkbook(task) ==
    \E j \in 1..Len(data.tasks) :
        data.tasks[j].row_index = task.row_index /\ data.tasks[j].task = task.task

\* the row carries the task's values wherever it holds no formula
RowHolds(row, task) ==
    \A c \in GuardedColumns \cup DateColumns \cup PlainColumns :
        \/ row.cells[c].f = "internal"
        \/ c \in DateColumns /\ IsNa(task[FieldOfColumn[c]])
        \/ row.cells[c] = Written(task[FieldOfColumn[c]])

\* the two task tables agree except for id and row_index
SameTable(a, b) ==
    /\ Len(a) = Len(b)
    /\ \A k \in 1..Len(a) :
          [a[k] EXCEPT !.id = 0, !.row_index = 0] = [b[k] EXCEPT !.id = 0, !.row_index = 0]

\* C5: export never replaces a schedule-sheet cell that holds same-workbook
\* formula text: after export each such cell still holds its formula, in the
\* task fields, in the project-info cells and in blanked rows.
C5_FormulaCellsSurviveExport ==
    [][last'.op = "export" =>
         /\ \A h \in DOMAIN workbook.head :
               workbook.head[h].f = "internal" => exported'.head[h] = workbook.head[h]
         /\ \A k \in 1..Len(workbook.rows) : \A c \in 1..NumCols :
               workbook.rows[k].cells[c].f = "internal"
                  => exported'.rows[k].cells[c] = workbook.rows[k].cells[c]]_vars

\* C6: ingesting a workbook, exporting with no edits and ingesting the exported
\* workbook yields a task table with the same number of tasks, in the same
\* order, with the same field values, except for id and source row.
C6_RoundTripIdentity ==
    (/\ reloaded # <<>>
     /\ exported = export_updated_excel(data, workbook, data.tasks, today))
        => SameTable(reloaded.tasks, data.tasks)

\* C7: export writes each task that came from the workbook into the sheet row it
\* was read from: after export that row carries the task's values.
C7_TaskWrittenToSourceRow ==
    [][last'.op = "export" =>
         \A p \in 1..Len(edited_all_tasks) :
             FromWorkbook(edited_all_tasks[p])
                => RowHolds(exported'.rows[SourceRow(edited_all_tasks[p])],
                            edited_all_tasks[p])]_vars

\* C8: when the edited table has fewer tasks than the ingested one and the
\* dashboard exports it, every sheet row that held an original task and lies
\* beyond the last written task row is blank in all 20 columns, and no sheet row
\* is deleted or shifted.
C8_DeletedRowsBlanked ==
    [][(last'.op = "export" /\ Len(edited_all_tasks) < Len(data.tasks)) =>
         /\ Len(exported'.rows) >= Len(workbook.rows)
         /\ \A j \in 1..Len(data.tasks) :
               LET r == SourceRow(data.tasks[j])
               IN  (/\ r > Len(edited_all_tasks)
                    /\ \A p \in 1..Len(edited_all_tasks) :
                          r > SourceRow(edited_all_tasks[p]))
                      => \A c \in 1..NumCols :
                            \/ exported'.rows[r].cells[c] = Blank
                            \/ exported'.rows[r].cells[c].f = "internal"]_vars

-----------------------------------------------------------------------------
(* Ingestion behaviours: a workbook is uploaded and ingested *)

\* main(): load_excel_data of the upload, then the session keys are created
Upload ==
    /\ data = <<>>
    /\ data' = load_excel_data(workbook, today)
    /\ edited_project_info' = data'.project_info
    /\ edited_all_tasks' = data'.tasks
    /\ edited_system_tasks' = data'.system_tasks
    /\ UNCHANGED <<workbook, today, exported, reloaded>>
    /\ UNCHANGED <<edit_history, history_index, last_edit_time>>

\* cells the first task row is drawn from
MarkerCells ==
    {Blank, T("<zhu xiangmu>"), T("<zi xiang>"), T("<sun xiangmu>"), T("Parent"), T("2"),
     N(4 * Scale), Cell(Str(<<" ", "3", " ">>)), Cell(Str(<<"1", "0">>)), T("0"), T("x"),
     N(2500)}
Fills == {<<>>, <<146, 208, 80>>, <<255, 192, 0>>}
NameCells == {T("A"), Cell(Str(<<" ", "A">>))}
OwnerCells == {Blank, T("TIM SMA")}
StatusCells == {Blank, T("Hold"), Cell(Str(<<" ">>))}
ProgressCells == {N(0), N(5), N(500), N(1000), N(99900), N(100 * Scale), N(120 * Scale)}
PlanEndCells == {Blank, Cell(Date(3)), Cell(Date(4)), T("d5")}
Todays == {4, 5}

\* the rows below the first task row
MarkedHeaderRow == [HeaderRow EXCEPT !.cells[20] = T(TokUnsupported)]
IngestTails ==
    {<<>>, <<RowB>>, <<HeaderRow, RowA>>, <<UnsupportedRow, BlankRow, RowB>>,
     <<MarkedHeaderRow, UnsupportedRow, RowB, UnsupportedRow>>}

\* the hierarchy signals vary over a row of fixed status inputs, and the status
\* inputs over a row of fixed hierarchy signals
InitIngest ==
    /\ \/ \E name \in NameCells, marker \in MarkerCells, owner \in OwnerCells,
             plan_start \in {Blank, Cell(Date(1))}, plan_end \in {Blank, Cell(Date(5))},
             fill \in Fills :
             /\ workbook = [head |-> SheetHead(T("P1")),
                            rows |-> <<Row(name, marker, owner, N(500), Blank, plan_start,
                                           plan_end, Blank, Blank, Blank, fill)>>]
             /\ today = EditToday
       \/ \E status \in StatusCells, progress \in ProgressCells, plan_end \in PlanEndCells,
             tail \in IngestTails, t \in Todays :
             /\ workbook = [head |-> SheetHead(T("P1")),
                            rows |-> <<Row(T("A"), Blank, T("TIM SMA"), progress, status,
                                           Cell(Date(1)), plan_end, Blank, Blank, Blank,
                                           <<>>)>> \o tail]
             /\ today = t
    /\ data = <<>>
    /\ edited_project_info = <<>>
    /\ edited_all_tasks = <<>>
    /\ edited_system_tasks = <<>>
    /\ edit_history = <<>>
    /\ history_index = 0 - 1
    /\ last_edit_time = <<>>
    /\ exported = <<>>
    /\ reloaded = <<>>
    /\ last = [op |-> "init", accepted |-> TRUE, failure |-> FALSE]
    /\ run = NoRun
    /\ mutations = 0

NextIngest == Upload /\ Observed("upload") /\ NoTrack /\ Charge(FALSE, MaxMutations)

SpecIngest == InitIngest /\ [][NextIngest]_vars

-----------------------------------------------------------------------------
(* Claims about ingestion *)

\* the sheet row an ingested task was read from
RowOfTask(task) == workbook.rows[SourceRow(task)]

\* the status the inference contract gives for the text of the status cell, the
\* task's percentage and plan end, and today
InferredStatus(status, progress_pct, plan_end, t) ==
    IF Strip(status) # <<>> THEN status
    ELSE IF progress_pct >= 100 * Scale THEN <<"Done">>
    ELSE IF IsDate(plan_end) /\ plan_end[2] < t THEN <<"Delay">>
    ELSE <<"Going">>

\* C9: at ingestion a task whose status cell is non-blank keeps that text; a task
\* whose status cell is blank gets Done if progress_pct >= 100, otherwise Delay
\* if plan_end is present and strictly before today, otherwise Going; the result
\* is a function of (status, progress_pct, plan_end, today) alone.
C9_StatusInference ==
    data # <<>> =>
        \A k \in 1..Len(data.tasks) :
            data.tasks[k].status =
                Str(InferredStatus(TextOrEmpty(Col(RowOfTask(data.tasks[k]), 7))[2],
                                   data.tasks[k].progress_pct[2],
                                   data.tasks[k].plan_end, today))

\* a complete task with a blank status and a plan end in the past was ingested as
\* Done, and in another row a plan end of today as Going
C9_Witness ==
    /\ data # <<>> /\ Len(data.tasks) = 1
    /\ IsNa(Col(workbook.rows[1], 7))
    /\ data.tasks[1].progress_pct = Num(100 * Scale)
    /\ data.tasks[1].plan_end = Date(3) /\ today = 4
    /\ data.tasks[1].status = Str(<<"Done">>)

\* the level the marker text implies: 0, 1, 2 for the vocabulary, n - 1 for a
\* positive integer n
MarkerImplies(marker, level) ==
    /\ marker \in MainMarkers => level = 0
    /\ marker \in SubMarkers => level = 1
    /\ marker \in SubSubMarkers => level = 2
    /\ (IsDigitText(marker) /\ NatOfDigits(marker) > 0) => level = NatOfDigits(marker) - 1

-----------------------------------------------------------------------------
(* Claims about the task table of the session *)

\* C11: in every reachable state every task of the table has its main-item flag
\* true exactly when its level is 0.
C11_MainFlagIffLevelZero ==
    \A k \in 1..Len(edited_all_tasks) :
        edited_all_tasks[k].is_parent = (edited_all_tasks[k].level = 0)

\* C12: ingestion materializes exactly one task, in source-row order, for each
\* row with a non-blank name that is not a header row and does not carry the
\* unsupported marker; each marked row adds one to the filtered count; tasks +
\* filtered count + skipped header rows = rows with a non-blank name.
C12_OneTaskPerSupportedRow ==
    data # <<>> =>
        LET named == {k \in 1..Len(workbook.rows) : HasName(workbook.rows[k])}
            headers == {k \in named : IsHeaderRow(workbook.rows[k])}
            marked == {k \in named \ headers : IsUnsupportedRow(workbook.rows[k])}
            kept == (named \ headers) \ marked
        IN  /\ Len(data.tasks) = Cardinality(kept)
            /\ {data.tasks[j].row_index : j \in 1..Len(data.tasks)} = {DfIndex(k) : k \in kept}
            /\ \A i, j \in 1..Len(data.tasks) :
                  i < j => data.tasks[i].row_index < data.tasks[j].row_index
            /\ \A j \in 1..Len(data.tasks) :
                  data.tasks[j].task = Str(Strip(StrOf(Col(RowOfTask(data.tasks[j]), 0))))
            /\ data.filtered_count = Cardinality(marked)
            /\ Len(data.tasks) + data.filtered_count + Cardinality(headers)
                  = Cardinality(named)

\* a sheet with a header row, two marked rows and two tasks was ingested
C12_Witness ==
    /\ data # <<>>
    /\ Len(workbook.rows) = 5
    /\ data.filtered_count = 2
    /\ Len(data.tasks) = 2
    /\ IsHeaderRow(workbook.rows[2]) /\ IsUnsupportedRow(workbook.rows[2])

\* the values of a percentage column
ColumnValues(tasks, col) == {tasks[k][col][2] : k \in 1..Len(tasks)}

\* C13: the column rescale rule changes nothing on a column whose values are all
\* <= 100 with maximum > 1; and a column authored on the 0-1 scale that is not
\* all zero is, once rescaled, all <= 100 with maximum > 1, so that a second
\* application changes nothing.
C13_RescaleIdempotent ==
    data # <<>> =>
        \A col \in {"progress_pct", "target_pct"} :
            LET raw == ScanRows(workbook.rows, Len(workbook.rows))[1]
                once == RescaleColumn(raw, col)
            IN  /\ (/\ raw # <<>>
                    /\ \A v \in ColumnValues(raw, col) : v <= 100 * Scale
                    /\ \E v \in ColumnValues(raw, col) : v > 1 * Scale)
                      => once = raw
                /\ (/\ raw # <<>>
                    /\ \A v \in ColumnValues(raw, col) : 0 <= v /\ v <= 1 * Scale
                    /\ \E v \in ColumnValues(raw, col) : v > 0)
                      => /\ \A v \in ColumnValues(once, col) : v <= 100 * Scale
                         /\ \E v \in ColumnValues(once, col) : v > 1 * Scale
                         /\ RescaleColumn(once, col) = once

-----------------------------------------------------------------------------
(* Milestone behaviours: a workbook with a system schedule sheet is ingested *)

MaxMilestones == 4
SheetWidth == 5

\* the names and hierarchy values the milestone rows are drawn from
MilestoneKinds ==
    {<<Str(<<TokArea, "A">>), NaN>>,
     <<Str(<<"B">>), Str(<<TokArea>>)>>,
     <<Str(<<"M">>), Str(<<TokMain>>)>>,
     <<Str(<<TokMain, "N">>), NaN>>,
     <<Str(<<"X">>), Str(<<TokSub>>)>>,
     <<Str(<<"Y">>), NaN>>,
     <<NaN, Str(<<TokArea>>)>>}

\* a sheet row with the hierarchy value in column hcol (0-based)
MilestoneRow(kind, hcol) ==
    [c \in 1..SheetWidth |->
        IF c = 1 THEN kind[1]
        ELSE IF c = 3 THEN Num(500)
        ELSE IF c = hcol + 1 THEN kind[2]
        ELSE NaN]

\* the first row of the sheet, with the hierarchy label in column hcol or nowhere
SystemHeader(hcol) ==
    [c \in 1..SheetWidth |->
        IF c = hcol + 1 /\ hcol # DefaultHierarchyCol THEN Str(<<TokHierarchy>>) ELSE NaN]

NoSession ==
    /\ data = <<>>
    /\ edited_project_info = <<>>
    /\ edited_all_tasks = <<>>
    /\ edited_system_tasks = <<>>
    /\ edit_history = <<>>
    /\ history_index = 0 - 1
    /\ last_edit_time = <<>>
    /\ exported = <<>>
    /\ reloaded = <<>>
    /\ last = [op |-> "init", accepted |-> TRUE, failure |-> FALSE]
    /\ run = NoRun
    /\ mutations = 0

InitMilestones ==
    /\ \E n \in 1..MaxMilestones, hcol \in {DefaultHierarchyCol, 4} :
          \E kinds \in [1..n -> MilestoneKinds] :
              workbook = [head |-> SheetHead(T("P1")), rows |-> <<RowA>>,
                          system |-> [header |-> SystemHeader(hcol),
                                      rows |-> [k \in 1..n |-> MilestoneRow(kinds[k], hcol)]]]
    /\ today = EditToday
    /\ NoSession

NextMilestones == Upload /\ Observed("upload") /\ NoTrack /\ Charge(FALSE, MaxMutations)

SpecMilestones == InitMilestones /\ [][NextMilestones]_vars

-----------------------------------------------------------------------------
(* Claims about the milestone scan *)

\* the rows of the system sheet, their names and hierarchy values as texts
MsRows == SystemSheet(workbook).rows
MsName(k) == StrippedOrEmpty(MsRows[k][1])
MsHierarchy(k) == StrippedOrEmpty(MsRows[k][hierarchy_col(SystemSheet(workbook).header) + 1])

\* the sheet row of the j-th emitted milestone: the j-th row with a name
MsRowOf(j) ==
    CHOOSE k \in 1..Len(MsRows) :
        MsName(k) # <<>> /\ Cardinality({i \in 1..k : MsName(i) # <<>>}) = j

\* area headings and main-item headings, as the scan contract names them
IsAreaHeading(k) ==
    MsName(k) # <<>> /\ (Contains(MsHierarchy(k), TokArea) \/ Contains(MsName(k), TokArea))
IsMainHeading(k) ==
    /\ MsName(k) # <<>> /\ ~IsAreaHeading(k)
    /\ (Contains(MsHierarchy(k), TokMain) \/ Contains(MsName(k), TokMain))

\* the last row at or before k satisfying P (0 when there is none)
LastAtOrBefore(k, P(_)) ==
    IF \E i \in 1..k : P(i) THEN CHOOSE i \in 1..k : P(i) /\ \A h \in (i + 1)..k : ~P(h)
    ELSE 0

\* C14: each emitted milestone's area is the name of the nearest area-heading row
\* at or before it in scan order, and empty when no area heading has been seen.
C14_AreaInherited ==
    data # <<>> =>
        /\ Len(data.system_tasks) = Cardinality({k \in 1..Len(MsRows) : MsName(k) # <<>>})
        /\ \A j \in 1..Len(data.system_tasks) :
              LET a == LastAtOrBefore(MsRowOf(j), IsAreaHeading)
              IN  data.system_tasks[j].area = Str(IF a = 0 THEN <<>> ELSE MsName(a))

\* a row that is no area directly after an area row named by its text inherited
\* that area, and a milestone before any area heading has an empty area
C14_Witness ==
    /\ data # <<>> /\ Len(data.system_tasks) = 4
    /\ data.system_tasks[1].area = Str(<<>>)
    /\ data.system_tasks[2].is_area /\ data.system_tasks[2].item = Str(<<TokArea, "A">>)
    /\ ~data.system_tasks[3].is_area /\ data.system_tasks[3].area = Str(<<TokArea, "A">>)
    /\ data.system_tasks[4].is_area /\ data.system_tasks[4].area = Str(<<"B">>)

\* C15: each sub milestone's main_item is the name of the most recent main-item
\* heading seen since the most recent area heading, blank when there is none;
\* area rows have a blank main_item; a row is a main-item heading when its
\* hierarchy value or its name contains the main-item marker.
C15_MainItemInherited ==
    data # <<>> =>
        \A j \in 1..Len(data.system_tasks) :
            LET k == MsRowOf(j)
                a == LastAtOrBefore(k, IsAreaHeading)
                m == LastAtOrBefore(k, IsMainHeading)
            IN  /\ IsAreaHeading(k) => data.system_tasks[j].main_item = Str(<<>>)
                /\ (~IsAreaHeading(k) /\ ~IsMainHeading(k)) =>
                      data.system_tasks[j].main_item =
                          Str(IF m > a THEN MsName(m) ELSE <<>>)

-----------------------------------------------------------------------------
(* Parser behaviours: one cell value is handed to safe_float and safe_int *)

MaxTextLen == 4

ParserAlphabet == {"3", "7", ".", "-", "+", " ", "x", TokCjk}
ParserTexts == UNION {[1..n -> ParserAlphabet] : n \in 0..MaxTextLen}
ParserCells ==
    {NaN, Num(0), Num(3700), Num(0 - 3700), Num(0 - 500), Num(5 * Scale), Inf(1), Inf(0 - 1),
     Date(1)} \cup {Str(t) : t \in ParserTexts}
ParserDefaults == {0, 0 - Scale}

InitParsers ==
    /\ \E v \in ParserCells, d \in ParserDefaults : workbook = [cell |-> v, default |-> d]
    /\ today = EditToday
    /\ NoSession

\* the cell goes through both parsers
ParseCell ==
    /\ data = <<>>
    /\ data' = [number |-> call_safe_float(workbook.cell, workbook.default),
                integer |-> call_safe_int(workbook.cell, workbook.default)]
    /\ UNCHANGED <<workbook, today, exported, reloaded>>
    /\ UNCHANGED session

NextParsers == ParseCell /\ Observed("parse") /\ NoTrack /\ Charge(FALSE, MaxMutations)

SpecParsers == InitParsers /\ [][NextParsers]_vars

-----------------------------------------------------------------------------
(* Claims about the field parsers *)

\* a plain ASCII numeral: digits with at most one decimal point and at most one
\* leading sign, after stripping
IsPlainNumeral(t) ==
    LET c == Strip(t)
        body == IF c # <<>> /\ c[1] \in {"-", "+"} THEN Tail(c) ELSE c
    IN  /\ \A i \in 1..Len(body) : body[i] \in DigitSet \cup {"."}
        /\ Cardinality({i \in 1..Len(body) : body[i] = "."}) <= 1
        /\ \E i \in 1..Len(body) : body[i] \in DigitSet

\* the cell is malformed as a number: absent, of a wrong type, or text that is
\* no plain numeral
IsMalformed(v) == IsNa(v) \/ IsDate(v) \/ (IsStr(v) /\ ~IsPlainNumeral(v[2]))

IsRaised(outcome) == outcome[1] = "raise"

\* C16: safe_float and safe_int never raise, for absent cells, text with
\* non-numeric or non-ASCII characters or misplaced signs, wrong-type values and
\* numbers including the infinities; on every malformed input both return the
\* supplied default.
C16_ParsersNeverRaise ==
    last.op = "parse" =>
        /\ ~IsRaised(data.number)
        /\ ~IsRaised(data.integer)
        /\ IsMalformed(workbook.cell) =>
              /\ data.number = Returned(workbook.default)
              /\ data.integer = Returned(workbook.default)

\* x in thousandths truncated toward zero, in thousandths
Truncated(x) ==
    LET a == IF x < 0 THEN 0 - x ELSE x
        q == CHOOSE n \in 0..a : n * Scale <= a /\ a < (n + 1) * Scale
    IN  IF x < 0 THEN 0 - (q * Scale) ELSE q * Scale

\* C17: on every input for which safe_float returns a parsed number x (a finite
\* number, or text that is a plain ASCII numeral with at most one leading sign and
\* one decimal point) safe_int returns x truncated toward zero; on every other
\* input it returns the default.
C17_IntegerIsTruncatedNumber ==
    (last.op = "parse" /\ ~IsInf(workbook.cell)) =>
        IF IsNum(workbook.cell) \/ (IsStr(workbook.cell) /\ IsPlainNumeral(workbook.cell[2]))
        THEN data.integer = Returned(Truncated(data.number[2]))
        ELSE data.integer = Returned(workbook.default)

-----------------------------------------------------------------------------
(* Claims about the identity of the tasks *)

\* C18: in every reachable state the task ids are exactly 1..n in table order,
\* after ingestion and after each add, copy, batch delete, accepted save, undo,
\* redo and reset: no duplicate and no gap.
C18_IdsSequential ==
    \A k \in 1..Len(edited_all_tasks) : edited_all_tasks[k].id = k

\* the first task was deleted and the second one now carries id 1
C18_Witness ==
    /\ last.op = "batch_delete"
    /\ Len(data.tasks) = 2 /\ Len(edited_all_tasks) = 1
    /\ edited_all_tasks[1].row_index = data.tasks[2].row_index
    /\ edited_all_tasks[1].id = 1

-----------------------------------------------------------------------------
(* Claims about the ingested baseline *)

\* C19: the ingested baseline (project info, task table, milestone table) is
\* never changed by the edit-session actions, and reset makes the session's
\* project info, task table and milestone table equal to that baseline.
C19_BaselineKept ==
    /\ data = load_excel_data(workbook, today)
    /\ last.op = "reset" =>
          /\ edited_project_info = data.project_info
          /\ edited_all_tasks = data.tasks
          /\ edited_system_tasks = data.system_tasks

\* a reset after a save that had changed the table, with milestones ingested
C19_Witness ==
    /\ last.op = "reset"
    /\ data.system_tasks # <<>>
    /\ edit_history # <<>>
    /\ edit_history[history_index + 1] # data.tasks
    /\ edited_all_tasks = data.tasks

-----------------------------------------------------------------------------
(* Claims about the dates of the saved tasks *)

\* the start of a pair is not after its end when both are present
Ordered(start, end) == (NotNa(start) /\ NotNa(end)) => start[2] <= end[2]

\* C20: after every accepted save, every task of the table has
\* plan_start <= plan_end and actual_start <= actual_end whenever both members
\* of the pair are present, whichever columns the editor showed and whichever
\* filter was active.
C20_SavedDatesOrdered ==
    (last.op = "save" /\ last.accepted) =>
        \A k \in 1..Len(edited_all_tasks) :
            /\ Ordered(edited_all_tasks[k].plan_start, edited_all_tasks[k].plan_end)
            /\ Ordered(edited_all_tasks[k].actual_start, edited_all_tasks[k].actual_end)

-----------------------------------------------------------------------------
(* The name of the exported file *)

\* the longest run of digits of t that starts at position i
RECURSIVE DigitRun(_, _)
DigitRun(t, i) ==
    IF i <= Len(t) /\ t[i] \in DigitSet THEN <<t[i]>> \o DigitRun(t, i + 1) ELSE <<>>

\* re.search(r'_[vV](\d+)', name): the digits of the first match, <<>> when none
version_match(name) ==
    LET hits == {i \in 1..(Len(name) - 2) :
                    name[i] = "_" /\ name[i + 1] \in {"v", "V"} /\ name[i + 2] \in DigitSet}
    IN  IF hits = {} THEN <<>>
        ELSE DigitRun(name, (CHOOSE i \in hits : \A j \in hits : i <= j) + 2)

\* characters removed from the project name
ForbiddenNameChars == {"\\", "/", ":", "*", "?", "\"", "<", ">", "|"}
TokSchedule == "<anzhuang paichengbiao>"    \* 安裝排程表

\* datetime.now().strftime('%Y%m%d') on day t
DateStr(t) == <<"D">> \o NumeralOf(t)

\* generate_export_filename(original_filename, project_name), generated on day t
generate_export_filename(original_filename, project_name, t) ==
    LET version == IF original_filename # <<>> /\ version_match(original_filename) # <<>>
                   THEN NatOfDigits(version_match(original_filename)) + 1
                   ELSE 1
        clean_project_name ==
            IF project_name # <<>>
            THEN SelectSeq(project_name, LAMBDA c : c \notin ForbiddenNameChars)
            ELSE <<"OHTC">>
    IN  clean_project_name \o <<"_", TokSchedule, "_">> \o DateStr(t)
            \o <<"_", "v">> \o NumeralOf(version) \o <<".xlsx">>

MaxNameLen == 4
NameAlphabet == {"_", "v", "V", "1", "9", "a"}
UploadNames == {body \o <<".xlsx">> : body \in UNION {[1..n -> NameAlphabet] : n \in 1..MaxNameLen}}
ProjectNames == {<<>>, <<"P">>, <<"P", "/", "2">>}

InitFilename ==
    /\ \E name \in UploadNames, project \in ProjectNames :
          workbook = [name |-> name, project_name |-> project]
    /\ today = EditToday
    /\ NoSession

\* the file name the download button is given
NameExport ==
    /\ exported = <<>>
    /\ exported' = [file_name |->
                       generate_export_filename(workbook.name, workbook.project_name, today)]
    /\ UNCHANGED <<workbook, today, data, reloaded>>
    /\ UNCHANGED session

NextFilename == NameExport /\ Observed("name") /\ NoTrack /\ Charge(FALSE, MaxMutations)

SpecFilename == InitFilename /\ [][NextFilename]_vars

\* the N of a name that ends in _v<N> before its extension, 1 for any other name
SuffixVersion(name) ==
    LET stem == IF name # <<>> /\ name[Len(name)] = ".xlsx"
                THEN SubSeq(name, 1, Len(name) - 1) ELSE name
        starts == {i \in 1..(Len(stem) - 2) :
                      /\ stem[i] = "_" /\ stem[i + 1] = "v"
                      /\ \A j \in (i + 2)..Len(stem) : stem[j] \in DigitSet}
    IN  IF starts = {} THEN 1
        ELSE NatOfDigits(SubSeq(stem, (CHOOSE i \in starts : TRUE) + 2, Len(stem)))

\* the version number a generated file name carries
CarriedVersion(file_name) ==
    LET u == CHOOSE i \in 1..Len(file_name) :
                 file_name[i] = "_" /\ \A j \in (i + 1)..Len(file_name) : file_name[j] # "_"
    IN  NatOfDigits(SubSeq(file_name, u + 2, Len(file_name) - 1))

\* C21: the exported file name carries version+1, where version is the N of the
\* original name's _v<N> suffix and 1 when the original name has no such suffix.
C21_VersionIncremented ==
    exported # <<>> =>
        CarriedVersion(exported.file_name) = SuffixVersion(workbook.name) + 1

-----------------------------------------------------------------------------
(* The command line tool: one run of main() *)

Commands == {"status", "delay", "upcoming", "search", "report", "owner"}

\* what a run leaves behind: the exit status, the command function that was
\* entered ("none" when none was), the file that was loaded ("none", "named",
\* "found") and whether a message was printed
Outcome(status, ran, loaded, message) ==
    [status |-> status, ran |-> ran, loaded |-> loaded, message |-> message]

\* kinds of .xlsx file: "good" holds the sheet and at least one task, "empty"
\* holds the sheet and no task, "bad" cannot be read as a schedule
FileKinds == {"good", "empty", "bad"}

\* main() for the parsed arguments args, the kind of the file named by the file
\* option ("absent" when it does not exist) and the *.xlsx files of the working
\* directory in glob order
cli_main(args, named, xlsx_files) ==
    LET found == named = "absent" /\ xlsx_files # <<>>
        kind == IF named # "absent" THEN named
                ELSE IF found THEN xlsx_files[1] ELSE "absent"
        loaded == IF named # "absent" THEN "named" ELSE "found"
    IN  IF kind = "absent" THEN Outcome(1, "none", "none", TRUE)
        ELSE IF kind = "bad" THEN Outcome(1, "none", "none", TRUE)   \* load_data: sys.exit(1)
        ELSE IF args.command = "search" /\ args.keyword = <<>>
             THEN Outcome(1, "none", loaded, TRUE)
        ELSE IF kind = "empty"
             THEN Outcome(1, args.command, loaded, TRUE)   \* KeyError on the empty frame
        ELSE Outcome(0, args.command, loaded, TRUE)

MaxOtherFiles == 2
Directories == UNION {[1..n -> FileKinds] : n \in 0..MaxOtherFiles}

InitCli ==
    /\ \E c \in Commands, k \in {<<>>, <<"B">>}, named \in FileKinds \cup {"absent"},
          dir \in Directories :
          workbook = [args |-> [command |-> c, keyword |-> k], named |-> named,
                      xlsx_files |-> dir]
    /\ today = EditToday
    /\ NoSession

RunCli ==
    /\ data = <<>>
    /\ data' = cli_main(workbook.args, workbook.named, workbook.xlsx_files)
    /\ UNCHANGED <<workbook, today, exported, reloaded>>
    /\ UNCHANGED session

NextCli == RunCli /\ Observed("cli") /\ NoTrack /\ Charge(FALSE, MaxMutations)

SpecCli == InitCli /\ [][NextCli]_vars

\* C22: whenever the file named by the file option does not exist, and whenever
\* the command is search with no keyword, the run prints a message and ends
\* with a non-zero status without running any command, whatever other files the
\* working directory holds.
C22_MissingInputExits ==
    (data # <<>> /\ (workbook.named = "absent"
                     \/ (workbook.args.command = "search" /\ workbook.args.keyword = <<>>))) =>
        data.status # 0 /\ data.ran = "none" /\ data.message

-----------------------------------------------------------------------------
(* The weekly report *)

\* date.weekday(): 0 is Monday; day 1 of the model's calendar is a Monday
weekday(d) == (d - 1) % 7

\* df_tasks[actual_end.notna() & (actual_end >= week_start) & (actual_end <= week_end)]
completed_this_week(tasks, week_start, week_end) ==
    SelectSeq(tasks, LAMBDA task :
        /\ IsDate(task.actual_end)
        /\ task.actual_end[2] >= week_start /\ task.actual_end[2] <= week_end)

\* the next-week selection with the last day of this week counted in
planned_next_week_FromWeekEnd(tasks, week_end) ==
    SelectSeq(tasks, LAMBDA task :
        /\ IsDate(task.plan_end)
        /\ task.plan_end[2] >= week_end /\ task.plan_end[2] <= week_end + 7
        /\ task.status # Str(<<"Done">>))

\* df_tasks[plan_end.notna() & (plan_end > week_end) & (plan_end <= next_week_end)
\*          & (status != 'Done')]
planned_next_week(tasks, week_end) ==
    SelectSeq(tasks, LAMBDA task :
        /\ IsDate(task.plan_end)
        /\ task.plan_end[2] > week_end /\ task.plan_end[2] <= week_end + 7
        /\ task.status # Str(<<"Done">>))

DelayListCap == 10

\* delay_tasks.head(10)
HeadOf(tasks, n) == SubSeq(tasks, 1, IF Len(tasks) < n THEN Len(tasks) ELSE n)

\* the line of a task in a list of the report
ReportLine(task) == [task |-> task.task, owner |-> task.owner]
ReportLines(tasks) == [k \in 1..Len(tasks) |-> ReportLine(tasks[k])]

\* generate_weekly_report(data, report_date): the figures and lists of the text
generate_weekly_report(d, report_date) ==
    LET df_tasks == d.tasks
        week_start == report_date - weekday(report_date)
        week_end == week_start + 6
        delay_tasks == SelectSeq(df_tasks, LAMBDA task : task.status = Str(<<"Delay">>))
    IN  [report_date |-> report_date,
         week_start |-> week_start,
         week_end |-> week_end,
         total |-> Len(df_tasks),
         done |-> Len(SelectSeq(df_tasks, LAMBDA task : task.status = Str(<<"Done">>))),
         going |-> Len(SelectSeq(df_tasks, LAMBDA task : task.status = Str(<<"Going">>))),
         delay |-> Len(delay_tasks),
         completed |-> ReportLines(completed_this_week(df_tasks, week_start, week_end)),
         planned |-> ReportLines(planned_next_week(df_tasks, week_end)),
         delayed |-> ReportLines(HeadOf(delay_tasks, DelayListCap))]

MaxDelayRows == 11

\* the task rows of the report workbooks: one row with any of these dates and
\* statuses, before or after a run of late rows
ReportDates == {Blank, Cell(Date(7)), Cell(Date(8)), Cell(Date(14)), Cell(Date(15)),
                Cell(Date(21)), Cell(Date(22))}
LateRow == Row(T("L"), Blank, T("TIM SMA"), N(10 * Scale), T("Delay"), Cell(Date(1)),
               Cell(Date(15)), Blank, Blank, Blank, <<>>)
ReportRows ==
    {Row(T("A"), Blank, T("Vendor"), N(10 * Scale), T(st), Cell(Date(1)), pe, Blank, ae,
         Blank, <<>>) :
        st \in {"Done", "Going", "Delay"}, pe \in ReportDates, ae \in ReportDates}
ReportWorkbooks ==
    {[head |-> SheetHead(T("P1")),
      rows |-> IF front THEN <<r>> \o [k \in 1..m |-> LateRow]
               ELSE [k \in 1..m |-> LateRow] \o <<r>>] :
        r \in ReportRows, m \in {0, 1, MaxDelayRows - 2, MaxDelayRows}, front \in BOOLEAN}
ReportDays == {8, 10, 14}

InitReport ==
    /\ workbook \in ReportWorkbooks
    /\ today = EditToday
    /\ InitSession

\* the weekly report tab, for the date picked in the side bar
WeeklyReport(report_date) ==
    /\ exported' = generate_weekly_report(data, report_date)
    /\ UNCHANGED <<workbook, today, data, reloaded>>
    /\ UNCHANGED session

NextReport ==
    \E report_date \in ReportDays :
        WeeklyReport(report_date) /\ Observed("report") /\ NoTrack /\ Charge(FALSE, MaxMutations)

SpecReport == InitReport /\ [][NextReport]_vars

\* C23: with week_start the Monday of the reference date's week and week_end six
\* days later, the completed list is exactly the tasks with actual_end in
\* [week_start, week_end], the next-week list exactly the tasks with plan_end in
\* (week_end, week_end + 7] whose status is not Done, the delay list the first 10
\* Delay tasks in table order, and the delay count the number of all Delay tasks.
C23_WeeklyPartition ==
    exported # <<>> =>
        LET monday == CHOOSE d \in (exported.report_date - 6)..exported.report_date :
                          weekday(d) = 0
            sunday == monday + 6
            completed == {k \in 1..Len(data.tasks) :
                            /\ IsDate(data.tasks[k].actual_end)
                            /\ data.tasks[k].actual_end[2] \in monday..sunday}
            planned == {k \in 1..Len(data.tasks) :
                            /\ IsDate(data.tasks[k].plan_end)
                            /\ data.tasks[k].plan_end[2] \in (sunday + 1)..(sunday + 7)
                            /\ data.tasks[k].status # Str(<<"Done">>)}
            late == {k \in 1..Len(data.tasks) : data.tasks[k].status = Str(<<"Delay">>)}
            first10 == {k \in late : Cardinality({j \in late : j < k}) < 10}
            Indices(set) == SelectSeq([k \in 1..Len(data.tasks) |-> k], LAMBDA k : k \in set)
            LinesOf(set) == [j \in 1..Len(Indices(set)) |->
                                ReportLine(data.tasks[Indices(set)[j]])]
        IN  /\ exported.week_start = monday /\ exported.week_end = sunday
            /\ exported.completed = LinesOf(completed)
            /\ exported.planned = LinesOf(planned)
            /\ exported.delayed = LinesOf(first10)
            /\ exported.delay = Cardinality(late)

\* eleven late rows before a Delay task due on the Monday after the week: the
\* delay list stops at ten lines, the count is twelve, and the task is planned
C23_Witness ==
    /\ exported # <<>> /\ exported.report_date = 10
    /\ Len(data.tasks) = 12 /\ exported.delay = 12 /\ Len(exported.delayed) = 10
    /\ data.tasks[12].plan_end = Date(15) /\ data.tasks[12].actual_end = Date(14)
    /\ Len(exported.planned) = 12 /\ Len(exported.completed) = 1

-----------------------------------------------------------------------------
(* Claims about the stripping pass of the export *)

\* the sheet columns no task field is written to
UnwrittenColumns == {c \in 1..NumCols : FieldOfColumn[c] = ""}

\* C24: the stripping pass clears a cell exactly when it holds a formula that
\* refers to another workbook; every formula of the workbook itself, also one
\* with square brackets of its own such as a structured table reference, is left
\* as it was.  Read on the columns the export writes nothing else to.
C24_OnlyExternalFormulasStripped ==
    exported # <<>> =>
        \A k \in 1..Len(workbook.rows) : \A c \in UnwrittenColumns :
            exported.rows[k].cells[c] =
                IF workbook.rows[k].cells[c].f = "external" THEN Blank
                ELSE workbook.rows[k].cells[c]

-----------------------------------------------------------------------------
(* Claims about the lower rules of the hierarchy classification *)

\* the marker text is a word of the vocabulary or a positive integer
IsValidMarker(marker) ==
    \/ marker \in MainMarkers \cup SubMarkers \cup SubSubMarkers
    \/ IsDigitText(marker) /\ NatOfDigits(marker) > 0

\* C25: a row with no valid marker and no qualifying green fill is classified
\* at level 1 (never 0) when its name has leading whitespace; otherwise at level
\* 0 when it has no owner and no plan dates, and at level 1 in every other case.
C25_LowerPrecedenceLevels ==
    data # <<>> =>
        \A k \in 1..Len(data.tasks) :
            LET row == RowOfTask(data.tasks[k])
            IN  (~IsValidMarker(LevelMarker(row)) /\ ~IsParentByColor(row.fill)) =>
                    data.tasks[k].level =
                        IF HasLeadingSpace(row) THEN 1
                        ELSE IF Strip(OwnerOf(row)) = <<>>
                                /\ IsNa(Col(row, 8)) /\ IsNa(Col(row, 9)) THEN 0
                        ELSE 1

-----------------------------------------------------------------------------
(* Claims about the status vocabulary *)

StatusVocabulary == {Str(<<"Done">>), Str(<<"Going">>), Str(<<"Delay">>), Str(<<>>)}

\* C26: in every reachable state every task's status is one of Done, Going,
\* Delay or the empty text, for every content of the source status cells; and
\* directly after ingestion no task has a blank or whitespace-only status.
C26_StatusInVocabulary ==
    /\ \A k \in 1..Len(edited_all_tasks) : edited_all_tasks[k].status \in StatusVocabulary
    /\ data # <<>> =>
          \A k \in 1..Len(data.tasks) :
              IsStr(data.tasks[k].status) /\ Strip(data.tasks[k].status[2]) # <<>>

-----------------------------------------------------------------------------
(* Claims about saving under a filter *)

\* the positions of the table the filter keeps out of the editor
HiddenBy(tasks, flt) ==
    {k \in 1..Len(tasks) : \A j \in 1..Len(filtered_tasks(tasks, flt)) :
                              filtered_tasks(tasks, flt)[j] # k}

\* C27: an accepted save made while a filter or search is active changes only
\* the tasks shown in the editor: every task filtered out of the view keeps all
\* its field values, and the number of tasks of the table is unchanged.
C27_HiddenTasksKept ==
    [][(last'.op = "save" /\ last'.accepted) =>
          \A flt \in Filters, show_all \in BOOLEAN :
              \A frame \in EditorResults(display_tasks(edited_all_tasks, flt), show_all) :
                  SaveChanges(flt, show_all, frame, MaxHistory) =>
                      /\ Len(edited_all_tasks') = Len(edited_all_tasks)
                      /\ \A k \in HiddenBy(edited_all_tasks, flt) :
                            edited_all_tasks'[k] = edited_all_tasks[k]]_vars

-----------------------------------------------------------------------------
(* Claims about the history pointer *)

\* C28: in every reachable edit-session state the history pointer is -1 when the
\* edit history is empty and otherwise lies in 0..length-1; undo is enabled
\* exactly when the pointer is above 0 and redo exactly when it is below
\* length-1; and after an undo or a redo the task table equals the history
\* snapshot at the pointer.
C28_HistoryPointerInvariant ==
    /\ IF edit_history = <<>>
       THEN history_index = 0 - 1
       ELSE 0 <= history_index /\ history_index <= Len(edit_history) - 1
    /\ (ENABLED Undo) <=> (history_index > 0)
    /\ (ENABLED Redo) <=> (history_index < Len(edit_history) - 1)
    /\ last.op \in {"undo", "redo"} =>
          edited_all_tasks = edit_history[history_index + 1]

\* an undo down to the oldest snapshot of a history of three or more, the
\* table now differing from the newest snapshot
C28_Witness ==
    /\ last.op = "undo"
    /\ history_index = 0
    /\ Len(edit_history) >= 3
    /\ edited_all_tasks # edit_history[Len(edit_history)]

-----------------------------------------------------------------------------
(* Upload behaviours: a second workbook is uploaded in a running session *)

\* main() run with another file in the uploader while the session keys exist:
\* load_excel_data of the new upload, the three `not in st.session_state` tests
\* and the edit-history test all fail
Reupload(uploaded_file) ==
    /\ data # <<>>
    /\ workbook' = uploaded_file
    /\ data' = load_excel_data(uploaded_file, today)
    /\ UNCHANGED session
    /\ UNCHANGED <<today, exported, reloaded>>

\* workbooks of the upload behaviours: two projects with different tasks, one
\* of them also with a system schedule sheet
RowC == [RowA EXCEPT !.cells[1] = T("C"), !.cells[3] = T("Wu")]
UploadWorkbooks ==
    {[head |-> SheetHead(T("P1")), rows |-> <<RowA, RowB>>],
     [head |-> SheetHead(T("P9")), rows |-> <<RowC>>],
     [head |-> SheetHead(T("P9")), rows |-> <<RowC>>, system |-> EditSystemSheet]}

InitUpload ==
    /\ workbook \in UploadWorkbooks
    /\ today = EditToday
    /\ NoSession

NextUpload ==
    \/ Upload /\ Observed("upload") /\ NoTrack /\ Charge(FALSE, MaxExportEdits)
    \/ /\ \E uploaded_file \in UploadWorkbooks \ {workbook} : Reupload(uploaded_file)
       /\ Observed("reupload") /\ NoTrack /\ Charge(FALSE, MaxExportEdits)
    \/ /\ data # <<>> /\ UpdateProjectInfo(NewInfo)
       /\ Observed("project") /\ NoTrack /\ Charge(TRUE, MaxExportEdits)
    \/ /\ data # <<>>
       /\ \E frame \in EditorResults(display_tasks(edited_all_tasks, DefaultFilter), FALSE) :
             /\ SaveChanges(DefaultFilter, FALSE, frame, MaxHistory)
             /\ ObservedSave(frame, FALSE)
       /\ NoTrack /\ Charge(TRUE, MaxExportEdits)
    \/ /\ data # <<>> /\ GenerateExcel
       /\ Observed("export") /\ NoTrack /\ Charge(FALSE, MaxExportEdits)

SpecUpload == InitUpload /\ [][NextUpload]_vars

\* C29: after a different workbook is uploaded and ingested in the same session,
\* the editable project info, task table and milestone table equal the newly
\* ingested workbook's tables and the edit history holds no snapshot of the
\* previous workbook.
C29_ReuploadReplacesSession ==
    last.op = "reupload" =>
        /\ edited_project_info = data.project_info
        /\ edited_all_tasks = data.tasks
        /\ edited_system_tasks = data.system_tasks
        /\ edit_history = <<>>

-----------------------------------------------------------------------------
(* Claims about the order of rescale and status inference *)

\* the task rows as scanned from the sheet, before rescale and inference
ScannedTasks == ScanRows(workbook.rows, Len(workbook.rows))[1]

\* the sheet's progress column is on the 0-1 scale and not all zero
AuthoredOnUnitScale ==
    /\ ScannedTasks # <<>>
    /\ \A v \in ColumnValues(ScannedTasks, "progress_pct") : 0 <= v /\ v <= 1 * Scale
    /\ \E v \in ColumnValues(ScannedTasks, "progress_pct") : v > 0

\* C30: status inference sees the normalized percentage: the stored status of
\* every task with a blank status cell is the one the Done/Delay/Going rule gives
\* for its stored progress_pct, and a blank-status task whose source progress is
\* 1.0 in a column authored on the 0-1 scale is stored with 100 and Done.
C30_InferenceSeesNormalized ==
    data # <<>> =>
        \A k \in 1..Len(data.tasks) :
            IsNa(Col(RowOfTask(data.tasks[k]), 7)) =>
                /\ data.tasks[k].status =
                      Str(InferredStatus(<<>>, data.tasks[k].progress_pct[2],
                                         data.tasks[k].plan_end, today))
                /\ (AuthoredOnUnitScale /\ ScannedTasks[k].progress_pct = Num(1 * Scale))
                      => /\ data.tasks[k].progress_pct = Num(100 * Scale)
                         /\ data.tasks[k].status = Str(<<"Done">>)

\* a blank-status task with 1.0 in a 0-1 column and a plan end before today,
\* which the raw value would make Delay, was ingested as Done
C30_Witness ==
    /\ data # <<>> /\ Len(data.tasks) >= 1
    /\ AuthoredOnUnitScale
    /\ IsNa(Col(RowOfTask(data.tasks[1]), 7))
    /\ ScannedTasks[1].progress_pct = Num(1 * Scale)
    /\ data.tasks[1].plan_end = Date(3) /\ today = 4
    /\ data.tasks[1].status = Str(<<"Done">>)

====
